---- MODULE Spec2Model ----
(***************************************************************************)
(* ReelTransfer: the transfer orchestration of reeltransfer_app            *)
(* (core/transfer.py and the handlers of ui/main_window.py MainWindow).    *)
(*                                                                         *)
(* Text is a sequence of one-character strings.  Python floats are IEEE    *)
(* binary64 values, modelled as a 53-bit significand (a sequence of bits,  *)
(* most significant first) and a binary exponent.                          *)
(***************************************************************************)
EXTENDS Integers, Sequences, FiniteSets, TLC

Min(a, b) == IF a <= b THEN a ELSE b
Max(a, b) == IF a >= b THEN a ELSE b

(***************************************************************************)
(* binary64 arithmetic of  int((copied / total) * 100)                     *)
(***************************************************************************)
MantBits == 53
LimbBits == 18

RECURSIVE Pow2(_)
Pow2(n) == IF n = 0 THEN 1 ELSE 2 * Pow2(n - 1)

RECURSIVE IntBits(_)
\* the binary digits of n, most significant first, no leading zero
IntBits(n) == IF n = 0 THEN <<>> ELSE Append(IntBits(n \div 2), n % 2)

RECURSIVE BitsVal(_, _, _)
\* the number whose binary digits are b[lo..hi]
BitsVal(b, lo, hi) == IF hi < lo THEN 0 ELSE 2 * BitsVal(b, lo, hi - 1) + b[hi]

\* the n low binary digits of d, most significant first
LowBits(d, n) ==
    LET digits(high) == [i \in 1..n |-> IF high[i] = 0 THEN 0 ELSE (d \div high[i]) % 2]
    IN  digits([i \in 1..n |-> Pow2(n - i)])

\* LimbBits * n binary digits of r / t after the point (r < t < 2^13), and the
\* remainder left, computed LimbBits digits at a time
RECURSIVE FracBits(_, _, _, _)
FracBits(r, t, n, acc) ==
    IF n = 0 THEN [bits |-> acc, rem |-> r]
    ELSE FracBits((r * Pow2(LimbBits)) % t, t, n - 1,
                  acc \o LowBits((r * Pow2(LimbBits)) \div t, LimbBits))

\* b + 1 for a digit sequence b
IncBits(b) ==
    LET zeros == {i \in 1..Len(b) : b[i] = 0}
        last == CHOOSE i \in zeros : \A j \in zeros : j <= i
    IN  IF zeros = {} THEN [i \in 1..(Len(b) + 1) |-> IF i = 1 THEN 1 ELSE 0]
        ELSE [i \in 1..Len(b) |-> IF i < last THEN b[i] ELSE IF i = last THEN 1 ELSE 0]

\* round to nearest, ties to even: all = the exact digits (at least 54), sticky
\* = some digit beyond them is set; the value is 0.all * 2^exp
RoundNearestEven(all, sticky, exp) ==
    LET below == sticky \/ \E i \in (MantBits + 2)..Len(all) : all[i] = 1
        up == all[MantBits + 1] = 1 /\ (below \/ all[MantBits] = 1)
        carried(inc) == IF Len(inc) > MantBits
                        THEN [mant |-> SubSeq(inc, 1, MantBits), exp |-> exp + 1]
                        ELSE [mant |-> inc, exp |-> exp]
    IN  IF ~up THEN [mant |-> SubSeq(all, 1, MantBits), exp |-> exp]
        ELSE carried(IncBits(SubSeq(all, 1, MantBits)))

RECURSIVE Shift(_, _)
\* the least s with c * 2^s >= t  (c > 0)
Shift(c, t) == IF c >= t THEN 0 ELSE 1 + Shift(2 * c, t)

\* c / t for ints c > 0 and 0 < t < 2^13: the correctly rounded binary64
\* quotient
FloatDiv(c, t) ==
    LET quotient(s, ib, fr) == RoundNearestEven(fr.bits, fr.rem # 0, Len(ib) - s)
        digits(s, ib, r) == quotient(s, ib, FracBits(r, t, 3, ib))
        scaled(s, c2) == digits(s, IntBits(c2 \div t), c2 % t)
        shifted(s) == scaled(s, c * Pow2(s))
    IN  shifted(Shift(c, t))

\* the digits of (the binary number with the 53 digits m) * k, 0 < k < 2^7,
\* computed limb by limb
MulBits(m, k) ==
    LET digits(base, p0, p1, p2) ==
            IntBits(p2 + (p1 + p0 \div base) \div base)
              \o LowBits((p1 + p0 \div base) % base, LimbBits)
              \o LowBits(p0 % base, LimbBits)
    IN  digits(Pow2(LimbBits),
               BitsVal(m, MantBits - LimbBits + 1, MantBits) * k,
               BitsVal(m, MantBits - 2 * LimbBits + 1, MantBits - LimbBits) * k,
               BitsVal(m, 1, MantBits - 2 * LimbBits) * k)

\* f * k for a binary64 f > 0 and an int k, 0 < k < 2^7, correctly rounded
FloatMul(f, k) ==
    LET rounded(prod) ==
            RoundNearestEven(Append(prod, 0), FALSE, f.exp + Len(prod) - MantBits)
    IN  rounded(MulBits(f.mant, k))

\* min(100, int(f)) for a binary64 f > 0: int() truncates toward zero
FloatIntMin100(f) ==
    IF f.exp <= 0 THEN 0
    ELSE IF f.exp > 7 THEN 100
    ELSE Min(100, BitsVal(f.mant, 1, f.exp))

\* min(100, int((copied / total) * 100))
PercentOf(copied, total) ==
    IF copied = 0 THEN 0 ELSE FloatIntMin100(FloatMul(FloatDiv(copied, total), 100))

(***************************************************************************)
(* Text: str.splitlines(keepends=True), str.strip(), the event-line regex  *)
(***************************************************************************)
\* the characters str.splitlines() ends a line at ("\f" stands for the
\* boundaries other than "\n" and "\r": \v \f \x1c \x1d \x1e \x85    )
LineBreaks == {"\n", "\r", "\f"}

\* the characters str.strip() removes and the regex class \s matches
Whitespace == {" ", "\t", "\n", "\r", "\f"}

Digits == <<"0", "1", "2", "3", "4", "5", "6", "7", "8", "9">>

UpperCase == <<"A", "B", "C", "D", "E", "F", "G", "H", "I", "J", "K", "L", "M",
               "N", "O", "P", "Q", "R", "S", "T", "U", "V", "W", "X", "Y", "Z">>
LowerCase == <<"a", "b", "c", "d", "e", "f", "g", "h", "i", "j", "k", "l", "m",
               "n", "o", "p", "q", "r", "s", "t", "u", "v", "w", "x", "y", "z">>

\* re.IGNORECASE: letters are compared in lower case
Lower(c) ==
    IF \E i \in 1..26 : UpperCase[i] = c
    THEN LowerCase[CHOOSE i \in 1..26 : UpperCase[i] = c]
    ELSE c

\* the k-th smallest element of a set of numbers
Nth(S, k) == CHOOSE e \in S : Cardinality({y \in S : y < e}) = k - 1

\* text.splitlines(keepends=True): "\r\n" ends one line, not two
SplitLines(text) ==
    LET split(ends, n) ==
            [k \in 1..n |->
                SubSeq(text, IF k = 1 THEN 1 ELSE Nth(ends, k - 1) + 1, Nth(ends, k))]
              \o (IF (IF n = 0 THEN 0 ELSE Nth(ends, n)) < Len(text)
                  THEN <<SubSeq(text, (IF n = 0 THEN 0 ELSE Nth(ends, n)) + 1, Len(text))>>
                  ELSE <<>>)
        at(ends) == split(ends, Cardinality(ends))
    IN  at({i \in 1..Len(text) :
               /\ text[i] \in LineBreaks
               /\ ~(text[i] = "\r" /\ i < Len(text) /\ text[i + 1] = "\n")})

\* text.strip()
Strip(text) ==
    LET between(keep) ==
            IF keep = {} THEN <<>>
            ELSE SubSeq(text, Nth(keep, 1), Nth(keep, Cardinality(keep)))
    IN  between({i \in 1..Len(text) : text[i] \notin Whitespace})

\* the alternatives of group 1 of _file_line_re, in lower case
Keywords == << <<"n", "e", "w", " ", "f", "i", "l", "e">>,
               <<"n", "e", "w", "e", "r">>,
               <<"o", "l", "d", "e", "r">>,
               <<"c", "h", "a", "n", "g", "e", "d">> >>

\* the length of the longest run of characters of class cls in text from
\* position from on
RunLen(text, from, cls) ==
    LET upTo(stops) ==
            IF stops = {} THEN Max(Len(text) - from + 1, 0) ELSE Nth(stops, 1) - from
    IN  upTo({i \in from..Len(text) : text[i] \notin cls})

SizeChars == {Digits[i] : i \in 1..10} \cup {","}

\* _file_line_re.match(line):  ^\s*(New File|Newer|Older|Changed)\s+([0-9,]+)\s+
\* The classes \s and [0-9,] are disjoint, so the greedy runs are the only
\* way to match; group 2 is the whole run of digits and commas.
FileLineMatch(line) ==
    LET none == [matched |-> FALSE, size_text |-> <<>>]
        tail(p2, sz) ==
            IF sz >= 1 /\ RunLen(line, p2 + sz, Whitespace) >= 1
            THEN [matched |-> TRUE, size_text |-> SubSeq(line, p2, p2 + sz - 1)]
            ELSE none
        size(p2) == tail(p2, RunLen(line, p2, SizeChars))
        gap(p1, ws1) == IF ws1 >= 1 THEN size(p1 + ws1) ELSE none
        after(p1) == gap(p1, RunLen(line, p1, Whitespace))
        keyword(lead, kws) ==
            IF kws = {} THEN none
            ELSE after(lead + Len(Keywords[CHOOSE k \in kws : TRUE]) + 1)
        from(lead) ==
            keyword(lead, {k \in 1..Len(Keywords) :
                              /\ lead + Len(Keywords[k]) <= Len(line)
                              /\ \A i \in 1..Len(Keywords[k]) :
                                     Lower(line[lead + i]) = Keywords[k][i]})
    IN  from(RunLen(line, 1, Whitespace))

DigitVal(c) == (CHOOSE i \in 1..10 : Digits[i] = c) - 1

RECURSIVE DecimalVal(_, _)
\* the number written by the digits ds[1..n]
DecimalVal(ds, n) == IF n = 0 THEN 0 ELSE 10 * DecimalVal(ds, n - 1) + DigitVal(ds[n])

\* a parse that stops reading at the first comma
ParseSizeToComma(size_text) ==
    LET value(ds) == IF ds = <<>> THEN 0 ELSE DecimalVal(ds, Len(ds))
        upTo(commas) ==
            IF commas = {} THEN size_text ELSE SubSeq(size_text, 1, Nth(commas, 1) - 1)
    IN  value(upTo({i \in 1..Len(size_text) : size_text[i] = ","}))

\* size_text.replace(",", "") then int(): a ValueError (no digit left) gives 0
ParseSize(size_text) ==
    LET value(ds) == IF ds = <<>> THEN 0 ELSE DecimalVal(ds, Len(ds))
    IN  value(SelectSeq(size_text, LAMBDA c : c # ","))

(***************************************************************************)
(* MainWindow: progress tracking                                           *)
(***************************************************************************)
\* _update_progress_from_line up to its call of _update_progress: what one
\* stripped line adds to _progress_copied_files and _progress_copied_bytes
LineEvent(line) ==
    LET event(m) == IF ~m.matched THEN [files |-> 0, bytes |-> 0]
                    ELSE [files |-> 1, bytes |-> Max(ParseSize(m.size_text), 0)]
    IN  IF line = <<>> THEN [files |-> 0, bytes |-> 0] ELSE event(FileLineMatch(line))

RECURSIVE SumEvents(_, _)
\* the events of lines[1..n], each line stripped first
SumEvents(lines, n) ==
    LET add(rest, ev) ==
            [files |-> rest.files + ev.files, bytes |-> rest.bytes + ev.bytes]
    IN  IF n = 0 THEN [files |-> 0, bytes |-> 0]
        ELSE add(SumEvents(lines, n - 1), LineEvent(Strip(lines[n])))

\* a consumer that carries nothing over to the next chunk
KeepsNoLine(lines) == FALSE

\* lines[-1] is kept as the carry-over unless it ends with "\n" or "\r"
KeepsLastLine(lines) ==
    LET last == lines[Len(lines)]
    IN  last[Len(last)] \notin {"\n", "\r"}

\* _consume_output_lines(data) with _output_buffer = buffer: the new buffer
\* and what the complete lines add to the copied counters
ConsumeOutputLines(buffer, data) ==
    LET result(rest, ev) == [buffer |-> rest, files |-> ev.files, bytes |-> ev.bytes]
        consume(lines) ==
            IF lines = <<>> THEN [buffer |-> <<>>, files |-> 0, bytes |-> 0]
            ELSE IF KeepsLastLine(lines)
            THEN result(lines[Len(lines)], SumEvents(lines, Len(lines) - 1))
            ELSE result(<<>>, SumEvents(lines, Len(lines)))
    IN  consume(SplitLines(buffer \o data))

\* _update_progress(final=...): the value the progress bar shows afterwards
\* (cur = the value it shows before)
UpdateProgress(total_bytes, total_files, copied_bytes, copied_files, final, cur) ==
    IF total_bytes > 0 THEN PercentOf(copied_bytes, total_bytes)
    ELSE IF total_files > 0 THEN PercentOf(copied_files, total_files)
    ELSE IF final THEN (IF copied_bytes > 0 \/ copied_files > 0 THEN 100 ELSE 0)
    ELSE cur

(***************************************************************************)
(* Paths and the filesystem.  A path is a sequence of names, a name is     *)
(* <<stem, suffix>>; the filesystem maps each existing (resolved) path to  *)
(* its kind and size.                                                      *)
(***************************************************************************)
DotDot == <<"..", "">>

\* Path.name as a string
NameStr(name) == name[1] \o name[2]

RECURSIVE JoinNames(_, _)
JoinNames(path, n) ==
    IF n = 0 THEN ""
    ELSE IF n = 1 THEN NameStr(path[1])
    ELSE JoinNames(path, n - 1) \o "\\" \o NameStr(path[n])

\* str(path)
PathStr(path) == JoinNames(path, Len(path))

\* Path.parent
Parent(path) == IF path = <<>> THEN <<>> ELSE SubSeq(path, 1, Len(path) - 1)

RECURSIVE ResolveFrom(_, _, _)
ResolveFrom(path, i, acc) ==
    IF i > Len(path) THEN acc
    ELSE IF path[i] = DotDot THEN ResolveFrom(path, i + 1, Parent(acc))
    ELSE ResolveFrom(path, i + 1, Append(acc, path[i]))

\* Path.resolve(): ".." components are folded away
Resolve(path) == ResolveFrom(path, 1, <<>>)

\* Path.exists(), Path.is_file(), Path.stat().st_size
Exists(fs, path) == Resolve(path) \in DOMAIN fs
IsFile(fs, path) == Exists(fs, path) /\ fs[Resolve(path)].kind = "file"
IsDir(fs, path) == Exists(fs, path) /\ fs[Resolve(path)].kind = "dir"
SizeOf(fs, path) == fs[Resolve(path)].size

\* path.relative_to(base): ok = FALSE stands for the ValueError
RelativeTo(path, base) ==
    IF Len(base) <= Len(path) /\ SubSeq(path, 1, Len(base)) = base
    THEN [ok |-> TRUE, rel |-> SubSeq(path, Len(base) + 1, Len(path))]
    ELSE [ok |-> FALSE, rel |-> <<>>]

(***************************************************************************)
(* core/transfer.py                                                        *)
(***************************************************************************)
NoPlan(error) == [ok |-> FALSE, error |-> error, src |-> <<>>, dst |-> <<>>, args |-> <<>>]

\* a comparison of the paths as they are written
SameText(src, dst) == src = dst

\* src.resolve() == dst.resolve()
SamePath(src, dst) == Resolve(src) = Resolve(dst)

\* a depth choice that never recurses
LevelOneOnly(o) == IF o.include_files # <<>> THEN <<"/LEV:1">> ELSE <<>>

\* the depth flag of build_plan
LevelArgs(o) ==
    IF o.include_files # <<>> THEN <<"/LEV:1">>
    ELSE IF o.include_subdirs THEN <<"/E">> ELSE <<>>

\* overwrite flags the wrong way round
DuplicateArgsSwapped(o) ==
    IF o.duplicate_action \in {"skip", "rename"} THEN <<"/IS", "/IT">>
    ELSE IF o.duplicate_action = "overwrite" THEN <<"/XN", "/XO", "/XC">>
    ELSE <<>>

\* the overwrite flags of build_plan
DuplicateArgs(o) ==
    IF o.duplicate_action \in {"skip", "rename"} THEN <<"/XN", "/XO", "/XC">>
    ELSE IF o.duplicate_action = "overwrite" THEN <<"/IS", "/IT">>
    ELSE <<>>

\* build_plan(src, dst, **o): the RoboCopyPlan, or ok = FALSE with the message
\* of the ValueError raised
build_plan(fs, src, dst, o) ==
    IF ~Exists(fs, src) THEN NoPlan("Source does not exist.")
    ELSE IF SamePath(src, dst)
    THEN NoPlan("Source and destination must be different.")
    ELSE [ok |-> TRUE, error |-> "", src |-> src, dst |-> dst,
          args |->
              LevelArgs(o)
           \o (IF o.move_files THEN <<"/MOVE">> ELSE <<>>)
           \o (IF o.mirror THEN <<"/MIR">> ELSE <<>>)
           \o (IF o.dry_run THEN <<"/L">> ELSE <<>>)
           \o <<"/R:" \o ToString(Max(o.retry_count, 0)),
                "/W:" \o ToString(Max(o.retry_wait_sec, 0))>>
           \o (IF o.multithread_count > 0
               THEN <<"/MT:" \o ToString(o.multithread_count)>> ELSE <<>>)
           \o DuplicateArgs(o)
           \o (IF o.include_files # <<>> THEN <<"/IF">> \o o.include_files ELSE <<>>)
           \o (IF o.exclude_files # <<>> THEN <<"/XF">> \o o.exclude_files ELSE <<>>)
           \o (IF o.include_file_list THEN <<"/BYTES">> ELSE <<"/NFL">>)
           \o <<"/NDL", "/NP", "/TEE">>]

\* the elements of a finite set in some fixed order: the order in which the
\* operating system lists a directory
SeqOfSet(S) ==
    CHOOSE q \in [1..Cardinality(S) -> S] : \A e \in S : \E i \in 1..Cardinality(S) : q[i] = e

RECURSIVE Flatten(_, _)
\* seqs[1] \o ... \o seqs[n]
Flatten(seqs, n) == IF n = 0 THEN <<>> ELSE Flatten(seqs, n - 1) \o seqs[n]

\* the names of the entries of directory dir of the given kind, as os.listdir
\* and os.walk list them
Entries(fs, dir, kind) ==
    SeqOfSet({q[Len(q)] : q \in {r \in DOMAIN fs : /\ r # <<>>
                                                    /\ Parent(r) = Resolve(dir)
                                                    /\ fs[r].kind = kind}})

RECURSIVE WalkFiles(_, _)
\* for root, _, files in os.walk(dir): yield root / name   (top-down)
WalkFiles(fs, dir) ==
    LET walk(files, subs) ==
            [i \in 1..Len(files) |-> Append(dir, files[i])]
              \o Flatten([i \in 1..Len(subs) |-> WalkFiles(fs, Append(dir, subs[i]))],
                         Len(subs))
    IN  walk(Entries(fs, dir, "file"), Entries(fs, dir, "dir"))

\* os.listdir(src) of iter_source_files raises when src is not a directory
ListdirRaises(fs, src, include_subdirs) ==
    ~IsFile(fs, src) /\ ~include_subdirs /\ ~IsDir(fs, src)

\* iter_source_files(src, include_subdirs), as the list of paths it yields
iter_source_files(fs, src, include_subdirs) ==
    IF IsFile(fs, src) THEN <<src>>
    ELSE IF include_subdirs THEN (IF IsDir(fs, src) THEN WalkFiles(fs, src) ELSE <<>>)
    ELSE LET under(files) == [i \in 1..Len(files) |-> Append(src, files[i])]
         IN  under(Entries(fs, src, "file"))

RECURSIVE EstimateAnyEntry(_, _, _, _, _)
\* the loop of estimate_transfer without its is_file test
EstimateAnyEntry(fs, targets, lo, hi, acc) ==
    LET add(rest, f) == IF ~Exists(fs, f) THEN rest
                        ELSE [rest EXCEPT !.count = @ + 1, !.total = @ + SizeOf(fs, f)]
        then(rest) == IF rest.count >= 0
                      THEN EstimateAnyEntry(fs, targets, (lo + hi) \div 2 + 1, hi, rest)
                      ELSE rest
    IN  IF lo > hi THEN acc
        ELSE IF lo = hi THEN add(acc, targets[lo])
        ELSE then(EstimateAnyEntry(fs, targets, lo, (lo + hi) \div 2, acc))

RECURSIVE EstimateOver(_, _, _, _, _)
\* the loop of estimate_transfer over targets[lo..hi], entered with the count
\* and total in acc: the first half of the range, then the second
EstimateOver(fs, targets, lo, hi, acc) ==
    LET add(rest, f) == IF ~IsFile(fs, f) THEN rest
                        ELSE [rest EXCEPT !.count = @ + 1, !.total = @ + SizeOf(fs, f)]
        then(rest) == IF rest.count >= 0
                      THEN EstimateOver(fs, targets, (lo + hi) \div 2 + 1, hi, rest)
                      ELSE rest
    IN  IF lo > hi THEN acc
        ELSE IF lo = hi THEN add(acc, targets[lo])
        ELSE then(EstimateOver(fs, targets, lo, (lo + hi) \div 2, acc))

\* estimate_transfer(src, include_subdirs=, include_files=, files=)
estimate_transfer(fs, src, include_subdirs, include_files, files) ==
    LET over(targets) == EstimateOver(fs, targets, 1, Len(targets),
                                      [count |-> 0, total |-> 0, raised |-> FALSE])
    IN  IF files # <<>> THEN over(files)
        ELSE IF include_files # <<>>
        THEN over([i \in 1..Len(include_files) |-> Append(src, include_files[i])])
        ELSE IF ListdirRaises(fs, src, include_subdirs)
        THEN [count |-> 0, total |-> 0, raised |-> TRUE]
        ELSE over(iter_source_files(fs, src, include_subdirs))

\* (0, [], []); raised = the call ended in an exception instead of returning
NoDuplicates == [count |-> 0, sample |-> <<>>, pairs |-> <<>>, raised |-> FALSE]

RECURSIVE DuplicatesOverUncapped(_, _, _, _, _, _)
\* the scan loop with a sample that keeps every collision
DuplicatesOverUncapped(fs, candidates, lo, hi, acc, o) ==
    LET add(rest, f, dest_file) ==
            IF (o.skip_missing /\ ~Exists(fs, f)) \/ ~Exists(fs, dest_file) THEN rest
            ELSE [count |-> rest.count + 1,
                  sample |-> Append(rest.sample, dest_file),
                  pairs |-> IF o.return_pairs
                            THEN Append(rest.pairs, <<f, dest_file>>) ELSE rest.pairs,
                  raised |-> FALSE]
        mapped(rest, f, r) ==
            add(rest, f, o.dst \o (IF r.ok THEN r.rel ELSE <<f[Len(f)]>>))
        then(rest) ==
            IF rest.count >= 0
            THEN DuplicatesOverUncapped(fs, candidates, (lo + hi) \div 2 + 1, hi, rest, o)
            ELSE rest
    IN  IF lo > hi THEN acc
        ELSE IF lo = hi
        THEN mapped(acc, candidates[lo], RelativeTo(candidates[lo], o.base))
        ELSE then(DuplicatesOverUncapped(fs, candidates, lo, (lo + hi) \div 2, acc, o))

RECURSIVE DuplicatesOver(_, _, _, _, _, _)
\* the loop shared by find_duplicates and find_duplicates_for_files over
\* candidates[lo..hi], entered with the total, sample and pairs in acc: the
\* first half of the range, then the second; o.skip_missing is the
\* "if not f.exists(): continue" of find_duplicates_for_files
DuplicatesOver(fs, candidates, lo, hi, acc, o) ==
    LET add(rest, f, dest_file) ==
            IF (o.skip_missing /\ ~Exists(fs, f)) \/ ~Exists(fs, dest_file) THEN rest
            ELSE [count |-> rest.count + 1,
                  sample |-> IF Len(rest.sample) < o.sample_limit
                             THEN Append(rest.sample, dest_file) ELSE rest.sample,
                  pairs |-> IF o.return_pairs
                            THEN Append(rest.pairs, <<f, dest_file>>) ELSE rest.pairs,
                  raised |-> FALSE]
        mapped(rest, f, r) ==
            add(rest, f, o.dst \o (IF r.ok THEN r.rel ELSE <<f[Len(f)]>>))
        then(rest) ==
            IF rest.count >= 0
            THEN DuplicatesOver(fs, candidates, (lo + hi) \div 2 + 1, hi, rest, o)
            ELSE rest
    IN  IF lo > hi THEN acc
        ELSE IF lo = hi
        THEN mapped(acc, candidates[lo], RelativeTo(candidates[lo], o.base))
        ELSE then(DuplicatesOver(fs, candidates, lo, (lo + hi) \div 2, acc, o))

\* find_duplicates without the test that both roots exist
FindDuplicatesUnguarded(fs, src, dst, include_subdirs, sample_limit, return_pairs) ==
    IF ListdirRaises(fs, src, include_subdirs)
    THEN [NoDuplicates EXCEPT !.raised = TRUE]
    ELSE LET over(candidates) ==
                 DuplicatesOver(fs, candidates, 1, Len(candidates), NoDuplicates,
                                [base |-> src, dst |-> dst, sample_limit |-> sample_limit,
                                 skip_missing |-> FALSE, return_pairs |-> return_pairs])
         IN  over(iter_source_files(fs, src, include_subdirs))

\* find_duplicates(src, dst, include_subdirs=, sample_limit=, return_pairs=)
find_duplicates(fs, src, dst, include_subdirs, sample_limit, return_pairs) ==
    IF ~Exists(fs, src) \/ ~Exists(fs, dst) THEN NoDuplicates
    ELSE IF ListdirRaises(fs, src, include_subdirs)
    THEN [NoDuplicates EXCEPT !.raised = TRUE]
    ELSE LET over(candidates) ==
                 DuplicatesOver(fs, candidates, 1, Len(candidates), NoDuplicates,
                                [base |-> src, dst |-> dst, sample_limit |-> sample_limit,
                                 skip_missing |-> FALSE, return_pairs |-> return_pairs])
         IN  over(iter_source_files(fs, src, include_subdirs))

\* find_duplicates_for_files(files, dst, sample_limit=, return_pairs=)
find_duplicates_for_files(fs, files, dst, sample_limit, return_pairs) ==
    IF files = <<>> \/ ~Exists(fs, dst) THEN NoDuplicates
    ELSE DuplicatesOver(fs, files, 1, Len(files), NoDuplicates,
                        [base |-> Parent(files[1]), dst |-> dst,
                         sample_limit |-> sample_limit,
                         skip_missing |-> TRUE, return_pairs |-> return_pairs])

\* parent / f"{stem} ({i}){suffix}"
Candidate(dst, i) ==
    Append(Parent(dst),
           <<dst[Len(dst)][1] \o " (" \o ToString(i) \o ")", dst[Len(dst)][2]>>)

\* a probe that takes the numbered name it is at, there or not
ProbeOnce(fs, dst, i) == Candidate(dst, i)

RECURSIVE ProbeFrom(_, _, _)
\* the while loop of _next_available_path from number i on
ProbeFrom(fs, dst, i) ==
    IF ~Exists(fs, Candidate(dst, i)) THEN Candidate(dst, i) ELSE ProbeFrom(fs, dst, i + 1)

\* _next_available_path(dst)
_next_available_path(fs, dst) == IF ~Exists(fs, dst) THEN dst ELSE ProbeFrom(fs, dst, 1)

\* the ancestors of path, path included, that are not in the filesystem
MissingDirs(fs, path) ==
    {SubSeq(Resolve(path), 1, k) : k \in 1..Len(Resolve(path))} \ DOMAIN fs

\* dst.parent.mkdir(parents=True, exist_ok=True) raises when an ancestor of
\* dst (or dst.parent itself) exists and is not a directory
MkdirFails(fs, dir) ==
    \E k \in 1..Len(Resolve(dir)) :
        /\ SubSeq(Resolve(dir), 1, k) \in DOMAIN fs
        /\ fs[SubSeq(Resolve(dir), 1, k)].kind # "dir"

\* the filesystem after the body of the try block for one pair succeeded
AfterRename(fs, src, final_dst, move_files) ==
    [q \in ((DOMAIN fs \cup {Resolve(final_dst)})
               \ (IF move_files THEN {Resolve(src)} ELSE {})) |->
        IF q = Resolve(final_dst) THEN fs[Resolve(src)]
        ELSE fs[q]]

RECURSIVE RenamesUntilError(_, _, _, _, _)
\* the loop with the try block around it instead of inside it: the first
\* failure ends the loop
RenamesUntilError(pairs, i, move_files, failing, acc) ==
    LET src == pairs[i][1]
        dst == pairs[i][2]
        mkdir(dirs) ==
            [q \in DOMAIN acc.fs \cup dirs |->
                IF q \in DOMAIN acc.fs THEN acc.fs[q] ELSE [kind |-> "dir", size |-> 0]]
        moved(made) ==
            [acc EXCEPT !.fs = AfterRename(made, src, _next_available_path(made, dst),
                                           move_files),
                        !.count = @ + 1]
    IN  IF i > Len(pairs) THEN acc
        ELSE IF ~Exists(acc.fs, src)
        THEN RenamesUntilError(pairs, i + 1, move_files, failing, acc)
        ELSE IF MkdirFails(acc.fs, Parent(dst))
        THEN [acc EXCEPT !.errors = Append(@, pairs[i])]
        ELSE IF i \in failing
        THEN [acc EXCEPT !.fs = mkdir(MissingDirs(acc.fs, Parent(dst))),
                         !.errors = Append(@, pairs[i])]
        ELSE RenamesUntilError(pairs, i + 1, move_files, failing,
                 moved(mkdir(MissingDirs(acc.fs, Parent(dst)))))

RECURSIVE RenamesFrom(_, _, _, _, _)
\* the loop of apply_duplicate_renames from pair i on; acc = the filesystem,
\* count and errors so far; failing = the pairs whose move or copy the
\* operating system refuses
RenamesFrom(pairs, i, move_files, failing, acc) ==
    LET src == pairs[i][1]
        dst == pairs[i][2]
        moved(made) ==
            IF i \in failing
            THEN [acc EXCEPT !.fs = made, !.errors = Append(@, pairs[i])]
            ELSE [acc EXCEPT !.fs = AfterRename(made, src,
                                        _next_available_path(made, dst), move_files),
                             !.count = @ + 1]
        mkdir(dirs) ==
            moved([q \in DOMAIN acc.fs \cup dirs |->
                      IF q \in DOMAIN acc.fs THEN acc.fs[q]
                      ELSE [kind |-> "dir", size |-> 0]])
    IN  IF i > Len(pairs) THEN acc
        ELSE IF ~Exists(acc.fs, src)
        THEN RenamesFrom(pairs, i + 1, move_files, failing, acc)
        ELSE IF MkdirFails(acc.fs, Parent(dst))
        THEN RenamesFrom(pairs, i + 1, move_files, failing,
                 [acc EXCEPT !.errors = Append(@, pairs[i])])
        ELSE RenamesFrom(pairs, i + 1, move_files, failing,
                 mkdir(MissingDirs(acc.fs, Parent(dst))))

\* apply_duplicate_renames(pairs, move_files=): the (count, errors) returned
\* and the filesystem left behind
apply_duplicate_renames(fs, pairs, move_files, failing) ==
    RenamesFrom(pairs, 1, move_files, failing, [fs |-> fs, count |-> 0, errors |-> <<>>])

(***************************************************************************)
(* The model's volume and the values its inputs are drawn from             *)
(***************************************************************************)
InDir == << <<"in", "">> >>
OutDir == << <<"out", "">> >>
GoneDir == << <<"gone", "">> >>
InAlias == << <<"in", "">>, DotDot, <<"in", "">> >>
FileA == Append(InDir, <<"a", ".mov">>)
FileB == Append(InDir, <<"b", ".mov">>)
FileC == InDir \o << <<"sub", "">>, <<"c", ".mov">> >>

Dir == [kind |-> "dir", size |-> 0]
File(n) == [kind |-> "file", size |-> n]

\* a volume with nothing in the destination, and one where a.mov is there
FsPlain ==
    (InDir :> Dir) @@ (OutDir :> Dir) @@ (FileA :> File(29)) @@ (FileB :> File(21))
      @@ (Parent(FileC) :> Dir) @@ (FileC :> File(0))
FsCollide == FsPlain @@ (Append(OutDir, <<"a", ".mov">>) :> File(5))

Volumes == {FsPlain, FsCollide}

\* a copy event of a.mov; what a process writes arrives as the event without
\* its line end, or as a line end
EventA == <<"N", "e", "w", "e", "r", " ", "2", "9", " ", "a", "\n">>
Chunks == {SubSeq(EventA, 1, Len(EventA) - 1), <<"\n">>}

ExitCodes == {0, 3, 7, 8, 9}

SrcTexts == {<<>>, InDir}
DstTexts == {OutDir, InDir}
FileLists == {<<FileA>>, <<FileA, FileB>>, <<FileA, FileC>>}

MaxProcs == 2
MaxReads == 2

(***************************************************************************)
(* MainWindow.  The handlers are the operations; which buttons are enabled *)
(* is not part of the model, so a handler may run in any state.  Widget    *)
(* values read by one handler only are inputs of its action (ui); chk_move *)
(* is read by _build_plan and by _on_finished and is state.  What the      *)
(* robocopy process itself does to the volume is not modelled.             *)
(***************************************************************************)
VARIABLES
    os_name,                 \* os.name
    fs,                      \* the volume
    src_edit, dst_edit,      \* the paths typed or picked (<<>> = empty text)
    _source_files,
    chk_move,
    procs,                   \* the QProcess objects created, in order
    _process,                \* index into procs, 0 = None
    _duplicate_action,
    _duplicate_pairs,
    _progress_total_files,
    _progress_total_bytes,
    _progress_copied_files,
    _progress_copied_bytes,
    _output_buffer,
    _progress_enabled,
    progress,                \* self.progress.value()
    status,                  \* the last status bar message, without its numbers
    shown,                   \* titles of the message boxes the last handler showed
    plan,                    \* what the last _build_plan / build_plan returned
    rename_jobs,             \* the apply_duplicate_renames calls made, in order
    lastOp,                  \* the last handler run, with the inputs it was given
    stream, fed,             \* process output still to come, and delivered
    request,                 \* the arguments of a direct call of a core function
    result                   \* what that call returned

selVars == <<src_edit, dst_edit, _source_files>>
procVars == <<procs, _process>>
dupVars == <<_duplicate_action, _duplicate_pairs>>
totalVars == <<_progress_total_files, _progress_total_bytes>>
copiedVars == <<_progress_copied_files, _progress_copied_bytes>>
envVars == <<os_name, stream, fed, request, result>>
vars == <<os_name, fs, src_edit, dst_edit, _source_files, chk_move, procs, _process,
          _duplicate_action, _duplicate_pairs, _progress_total_files,
          _progress_total_bytes, _progress_copied_files, _progress_copied_bytes,
          _output_buffer, _progress_enabled, progress, status, shown, plan,
          rename_jobs, lastOp, stream, fed, request, result>>

SampleLimit == 10
MaxExcludes == 200

NoUi == [subdirs |-> TRUE, mirror |-> FALSE, dry_run |-> FALSE, check_dupes |-> TRUE,
         check_space |-> TRUE, retries |-> 1, wait |-> 1, threads |-> 4]
Op(name, ui, code) == [op |-> name, ui |-> ui, code |-> code]

\* [p.name for p in files]
Names(files) == [i \in 1..Len(files) |-> NameStr(files[i][Len(files[i])])]

\* the scan of _choose_duplicate_action
ScanFor(src, dst, files, ui) ==
    IF files # <<>> THEN find_duplicates_for_files(fs, files, dst, SampleLimit, TRUE)
    ELSE find_duplicates(fs, src, dst, ui.subdirs, SampleLimit, TRUE)

\* _choose_duplicate_action(src, dst, files): the action returned ("None" for
\* None), the new _duplicate_pairs, and whether the dialog was shown; clicked
\* = the button of the dialog
_choose_duplicate_action(src, dst, files, ui, clicked) ==
    LET pick(scan) ==
            IF scan.count = 0 THEN [action |-> "ask", pairs |-> <<>>, asked |-> FALSE]
            ELSE IF clicked = "skip"
            THEN [action |-> "skip", pairs |-> scan.pairs, asked |-> TRUE]
            ELSE IF clicked = "overwrite"
            THEN [action |-> "overwrite", pairs |-> <<>>, asked |-> TRUE]
            ELSE IF clicked = "rename"
            THEN [action |-> "rename", pairs |-> scan.pairs, asked |-> TRUE]
            ELSE [action |-> "None", pairs |-> <<>>, asked |-> TRUE]
    IN  IF ~ui.check_dupes
        THEN [action |-> "ask", pairs |-> _duplicate_pairs, asked |-> FALSE]
        ELSE pick(ScanFor(src, dst, files, ui))

\* the relative_paths of _build_plan, all of them
ExcludeEvery(pairs, src) ==
    LET str(src_file, r) ==
            IF r.ok THEN PathStr(r.rel) ELSE NameStr(src_file[Len(src_file)])
    IN  [i \in 1..Len(pairs) |-> str(pairs[i][1], RelativeTo(pairs[i][1], src))]

\* the relative_paths of _build_plan, capped
ExcludeFiles(pairs, src) ==
    LET str(src_file, r) ==
            IF r.ok THEN PathStr(r.rel) ELSE NameStr(src_file[Len(src_file)])
    IN  [i \in 1..Min(Len(pairs), MaxExcludes) |->
            str(pairs[i][1], RelativeTo(pairs[i][1], src))]

\* a selection test that accepts files of any parents
AnyParents(files) == FALSE

\* the files of one selection do not all have the parent of the first
MixedParents(files) == \E i \in 1..Len(files) : Parent(files[i]) # Parent(files[1])

\* _build_plan(for_execution=): the plan returned (ok = FALSE for None, with
\* the title of the box shown), the new _duplicate_action and
\* _duplicate_pairs, and whether the duplicates dialog was shown
_build_plan(for_execution, ui, clicked) ==
    LET keep(title) == [plan |-> NoPlan(title), action |-> _duplicate_action,
                        pairs |-> _duplicate_pairs, shown |-> <<title>>,
                        asked |-> FALSE]
        done(chosen, built) ==
            [plan |-> IF built.ok THEN built ELSE NoPlan("Invalid Setup"),
             action |-> chosen.action, pairs |-> chosen.pairs,
             shown |-> (IF chosen.asked THEN <<"Duplicates Found">> ELSE <<>>)
                         \o (IF built.ok THEN <<>> ELSE <<"Invalid Setup">>),
             asked |-> chosen.asked]
        build(src, chosen) ==
            IF chosen.action = "None"
            THEN [plan |-> NoPlan("Duplicates Found"), action |-> _duplicate_action,
                  pairs |-> chosen.pairs, shown |-> <<"Duplicates Found">>,
                  asked |-> TRUE]
            ELSE done(chosen,
                      build_plan(fs, src, dst_edit,
                          [include_subdirs |-> ui.subdirs, move_files |-> chk_move,
                           mirror |-> ui.mirror, dry_run |-> ui.dry_run,
                           retry_count |-> ui.retries, retry_wait_sec |-> ui.wait,
                           multithread_count |-> ui.threads,
                           duplicate_action |-> chosen.action,
                           include_files |-> Names(_source_files),
                           include_file_list |-> for_execution,
                           exclude_files |->
                               IF for_execution /\ chosen.action = "skip"
                               THEN ExcludeFiles(chosen.pairs, src) ELSE <<>>]))
        choose(src) ==
            IF for_execution
            THEN build(src, _choose_duplicate_action(src, dst_edit, _source_files,
                                                     ui, clicked))
            ELSE build(src, [action |-> "ask", pairs |-> <<>>, asked |-> FALSE])
    IN  IF src_edit = <<>> \/ dst_edit = <<>> THEN keep("Missing Paths")
        ELSE IF _source_files # <<>> /\ MixedParents(_source_files)
        THEN keep("Invalid Selection")
        ELSE IF _source_files # <<>> /\ ui.mirror THEN keep("Mirror not supported")
        ELSE choose(IF _source_files # <<>> THEN Parent(_source_files[1]) ELSE src_edit)

\* a test that takes a process still starting for no process
IsRunning(ps, current) == current # 0 /\ ps[current].state = "Running"

\* the test of _start for a transfer that is already running
IsBusy(ps, current) == current # 0 /\ ps[current].state # "NotRunning"

\* a new QProcess after start(); reads counts the chunks read from it while it
\* runs
NewProc == [state |-> "Starting", killed |-> FALSE, reads |-> 0]

\* _preflight_check(src, dst) up to the free space check: the estimate
Preflight(src, ui) ==
    estimate_transfer(fs, src, ui.subdirs,
                      [i \in 1..Len(_source_files) |->
                          _source_files[i][Len(_source_files[i])]],
                      _source_files)

\* a free space check that also warns when the space is just enough
LowDiskSpaceInclusive(ui, disk, total_bytes) ==
    ui.check_space /\ disk.ok /\ total_bytes > 0 /\ disk.free <= total_bytes

\* the free space check of _preflight_check.  disk = what
\* shutil.disk_usage(dst) gives (ok = FALSE: it raises)
LowDiskSpace(ui, disk, total_bytes) ==
    ui.check_space /\ disk.ok /\ total_bytes > 0 /\ disk.free < total_bytes

\* _start, with _build_plan and _preflight_check.  clicked = the button chosen
\* in the duplicates dialog, "none" when the dialog is not shown; proc = the
\* record kept for the QProcess it creates
StartProc(ui, clicked, disk, proc) ==
    /\ Len(procs) < MaxProcs
    /\ lastOp' = Op("_start", ui, 0)
    /\ IF os_name # "nt"
       THEN /\ clicked = "none"
            /\ shown' = <<"Unsupported">>
            /\ UNCHANGED <<fs, selVars, chk_move, procVars, dupVars, totalVars,
                           copiedVars, _output_buffer, _progress_enabled,
                           progress, status, plan, rename_jobs, envVars>>
       ELSE \E bp \in {_build_plan(TRUE, ui, clicked)} :
            /\ bp.asked <=> clicked # "none"
            /\ plan' = bp.plan
            /\ _duplicate_action' = bp.action
            /\ _duplicate_pairs' = bp.pairs
            /\ IF ~bp.plan.ok
               THEN /\ shown' = bp.shown
                    /\ UNCHANGED <<procVars, totalVars, copiedVars,
                                   _progress_enabled, progress, status>>
               ELSE \E est \in {Preflight(bp.plan.src, ui)} :
                    \E low \in {IF LowDiskSpace(ui, disk, est.total)
                                 THEN <<"Low disk space">> ELSE <<>>} :
                    /\ _progress_total_files' = est.count
                    /\ _progress_total_bytes' = est.total
                    /\ _progress_copied_files' = 0
                    /\ _progress_copied_bytes' = 0
                    /\ _progress_enabled' = ~ui.dry_run
                    /\ progress' = IF ui.dry_run THEN 0 ELSE progress
                    /\ status' = IF ui.dry_run THEN <<"Dry run enabled">> ELSE status
                    /\ IF IsBusy(procs, _process)
                       THEN /\ shown' = bp.shown \o low \o <<"Busy">>
                            /\ UNCHANGED procVars
                       ELSE /\ shown' = bp.shown \o low
                            /\ procs' = Append(procs, proc)
                            /\ _process' = Len(procs) + 1
            /\ UNCHANGED <<fs, selVars, chk_move, _output_buffer, rename_jobs,
                           envVars>>

\* _start
Start(ui, clicked, disk) == StartProc(ui, clicked, disk, NewProc)

\* _preview
Preview(ui) ==
    \E bp \in {_build_plan(FALSE, ui, "none")} :
        /\ lastOp' = Op("_preview", ui, 0)
        /\ shown' = bp.shown
        /\ plan' = bp.plan
        /\ _duplicate_action' = bp.action
        /\ _duplicate_pairs' = bp.pairs
        /\ status' = IF bp.plan.ok THEN <<"Preview generated">> ELSE status
        /\ UNCHANGED <<fs, selVars, chk_move, procVars, totalVars, copiedVars,
                       _output_buffer, _progress_enabled, progress, rename_jobs,
                       envVars>>

\* _stop
Stop ==
    /\ lastOp' = Op("_stop", NoUi, 0)
    /\ shown' = <<>>
    /\ IF IsBusy(procs, _process)
       THEN /\ procs' = [procs EXCEPT ![_process].killed = TRUE]
            /\ status' = <<"Transfer stopped">>
       ELSE UNCHANGED <<procs, status>>
    /\ UNCHANGED <<fs, selVars, chk_move, _process, dupVars, totalVars, copiedVars,
                   _output_buffer, _progress_enabled, progress, plan, rename_jobs,
                   envVars>>

\* the started signal of process i: _set_running(True)
ProcStarted(i) ==
    /\ procs[i].state = "Starting"
    /\ procs' = [procs EXCEPT ![i].state = "Running"]
    /\ progress' = 0
    /\ lastOp' = Op("started", NoUi, 0)
    /\ shown' = <<>>
    /\ UNCHANGED <<fs, selVars, chk_move, _process, dupVars, totalVars, copiedVars,
                   _output_buffer, _progress_enabled, status, plan, rename_jobs,
                   envVars>>

\* process i could not be launched: no signal of it is connected
ProcFailedToStart(i) ==
    /\ procs[i].state = "Starting"
    /\ procs' = [procs EXCEPT ![i].state = "NotRunning"]
    /\ lastOp' = Op("failed to start", NoUi, 0)
    /\ shown' = <<>>
    /\ UNCHANGED <<fs, selVars, chk_move, _process, dupVars, totalVars, copiedVars,
                   _output_buffer, _progress_enabled, progress, status, plan,
                   rename_jobs, envVars>>

\* _consume_output_lines(data): the buffer, the counters and, after an event
\* line, the progress bar
_consume_output_lines(data) ==
    \E r \in {ConsumeOutputLines(_output_buffer, data)} :
        /\ _output_buffer' = r.buffer
        /\ _progress_copied_files' = _progress_copied_files + r.files
        /\ _progress_copied_bytes' = _progress_copied_bytes + r.bytes
        /\ progress' = IF r.files = 0 THEN progress
                       ELSE UpdateProgress(_progress_total_bytes,
                                _progress_total_files,
                                _progress_copied_bytes + r.bytes,
                                _progress_copied_files + r.files,
                                FALSE, progress)

\* _read_output(proc) for process i with data read from it
ReadOutput(i, data) ==
    /\ procs[i].state = "Running"
    /\ procs[i].reads < MaxReads
    /\ procs' = [procs EXCEPT ![i].reads = @ + 1]
    /\ lastOp' = Op("_read_output", NoUi, 0)
    /\ shown' = <<>>
    /\ IF _progress_enabled
       THEN _consume_output_lines(data)
       ELSE UNCHANGED <<_output_buffer, copiedVars, progress>>
    /\ UNCHANGED <<fs, selVars, chk_move, _process, dupVars, totalVars,
                   _progress_enabled, status, plan, rename_jobs, envVars>>

\* the exit code from which _on_finished reports a failure
FailureCode == 8

\* a classification that lets the threshold itself pass
IsAboveFailureCode(exit_code) == exit_code > FailureCode

IsFailure(exit_code) == exit_code >= FailureCode

\* _on_finished(exit_code, _) for process i; failing = the pairs whose move or
\* copy the operating system refuses
ProcFinished(i, exit_code, failing) ==
    LET renames == ~IsFailure(exit_code) /\ _duplicate_action = "rename"
                       /\ _duplicate_pairs # <<>>
    IN  /\ procs[i].state = "Running"
        /\ renames \/ failing = {}
        /\ procs' = [procs EXCEPT ![i].state = "NotRunning", ![i].reads = 0]
        /\ lastOp' = Op("_on_finished", NoUi, exit_code)
        /\ progress' = UpdateProgress(_progress_total_bytes, _progress_total_files,
                           _progress_copied_bytes, _progress_copied_files, TRUE,
                           progress)
        /\ status' = IF IsFailure(exit_code) THEN <<"Transfer failed">>
                     ELSE <<"Transfer complete">>
        /\ IF renames
           THEN \E r \in {apply_duplicate_renames(fs, _duplicate_pairs, chk_move,
                                                  failing)} :
                /\ fs' = r.fs
                /\ rename_jobs' = Append(rename_jobs,
                       [proc |-> i, pairs |-> _duplicate_pairs, move_files |-> chk_move,
                        count |-> r.count, errors |-> r.errors])
                /\ shown' = IF r.errors # <<>>
                            THEN <<"Auto-rename completed (with issues)">>
                            ELSE <<"Auto-rename completed">>
           ELSE /\ shown' = IF IsFailure(exit_code) THEN <<"Transfer failed">> ELSE <<>>
                /\ UNCHANGED <<fs, rename_jobs>>
        /\ UNCHANGED <<selVars, chk_move, _process, dupVars, totalVars, copiedVars,
                       _output_buffer, _progress_enabled, plan, envVars>>

\* the user ticks or unticks "Move files"
ToggleMove ==
    /\ chk_move' = ~chk_move
    /\ lastOp' = Op("chk_move", NoUi, 0)
    /\ shown' = <<>>
    /\ UNCHANGED <<fs, selVars, procVars, dupVars, totalVars, copiedVars,
                   _output_buffer, _progress_enabled, progress, status, plan,
                   rename_jobs, envVars>>

\* the text _pick_src_files puts into src_edit
Decorated(parent, n) ==
    IF parent = <<>> THEN << <<"  (" \o ToString(n) \o " file(s))", "">> >>
    ELSE Append(Parent(parent),
                <<NameStr(parent[Len(parent)]) \o "  (" \o ToString(n) \o " file(s))", "">>)

\* _pick_src with the folder chosen
PickSrc(folder) ==
    /\ folder # <<>>
    /\ src_edit' = folder
    /\ _source_files' = <<>>
    /\ lastOp' = Op("_pick_src", NoUi, 0)
    /\ shown' = <<>>
    /\ UNCHANGED <<fs, dst_edit, chk_move, procVars, dupVars, totalVars, copiedVars,
                   _output_buffer, _progress_enabled, progress, status, plan,
                   rename_jobs, envVars>>

\* _pick_src_files with the files chosen
PickSrcFiles(files) ==
    /\ files # <<>>
    /\ _source_files' = files
    /\ src_edit' = Decorated(Parent(files[1]), Len(files))
    /\ lastOp' = Op("_pick_src_files", NoUi, 0)
    /\ shown' = <<>>
    /\ UNCHANGED <<fs, dst_edit, chk_move, procVars, dupVars, totalVars, copiedVars,
                   _output_buffer, _progress_enabled, progress, status, plan,
                   rename_jobs, envVars>>

\* the user types text into src_edit: _src_text_edited
SrcTextEdited(text) ==
    /\ src_edit' = text
    /\ _source_files' = <<>>
    /\ lastOp' = Op("_src_text_edited", NoUi, 0)
    /\ shown' = <<>>
    /\ UNCHANGED <<fs, dst_edit, chk_move, procVars, dupVars, totalVars, copiedVars,
                   _output_buffer, _progress_enabled, progress, status, plan,
                   rename_jobs, envVars>>

\* _pick_dst with the folder chosen
PickDst(folder) ==
    /\ folder # <<>>
    /\ dst_edit' = folder
    /\ lastOp' = Op("_pick_dst", NoUi, 0)
    /\ shown' = <<>>
    /\ UNCHANGED <<fs, src_edit, _source_files, chk_move, procVars, dupVars,
                   totalVars, copiedVars, _output_buffer, _progress_enabled,
                   progress, status, plan, rename_jobs, envVars>>

(***************************************************************************)
(* The inputs of the specifications                                        *)
(***************************************************************************)
Clicks == {"none", "skip", "overwrite", "rename", "cancel"}
Disks == {[ok |-> TRUE, free |-> 1000]}

\* the widget values a run is started with in Spec
UiRun == {[NoUi EXCEPT !.dry_run = d] : d \in BOOLEAN}

\* the widget values a plan is built from in SpecBuild
UiBuild ==
    {[NoUi EXCEPT !.mirror = m, !.check_dupes = c] : m \in BOOLEAN, c \in BOOLEAN}

\* the texts fed to the consumer in SpecConsume: up to MaxPieces pieces, each
\* an event without its line end, a line end character, or other text
MaxPieces == 3
Pieces == {SubSeq(EventA, 1, Len(EventA) - 1), <<"\r">>, <<"\n">>, <<"x">>}

RECURSIVE StreamsOf(_)
StreamsOf(n) ==
    IF n = 0 THEN {<<>>}
    ELSE StreamsOf(n - 1) \cup {s \o p : s \in StreamsOf(n - 1), p \in Pieces}

Streams == StreamsOf(MaxPieces)

\* the counters the progress bar is computed from in SpecPercent
MaxTotal == 50
MaxCopied == 30
TotalFiles == {0, 50}
CopiedFiles == {0, 29}

\* the build_plan calls of SpecPlan
Options ==
    [include_subdirs : BOOLEAN, move_files : BOOLEAN, mirror : BOOLEAN,
     dry_run : BOOLEAN, retry_count : {0, 3}, retry_wait_sec : {1},
     multithread_count : {0, 4},
     duplicate_action : {"ask", "skip", "overwrite", "rename"},
     include_files : {<<>>, <<"a.mov">>}, include_file_list : BOOLEAN,
     exclude_files : {<<>>, <<"b.mov">>}]
Requests == [src : {InDir, InAlias, GoneDir}, dst : {OutDir, InDir}, o : Options]
NoRequest == [src |-> <<>>, dst |-> <<>>, o |-> NoUi]
NoResult == <<>>

\* flag is one of the arguments
Has(args, flag) == \E k \in DOMAIN args : args[k] = flag

\* the processes that have not exited
ActiveProcs(ps) == {i \in DOMAIN ps : ps[i].state # "NotRunning"}

\* MainWindow.__init__, without the widgets read from the settings
InitWindow ==
    /\ procs = <<>>
    /\ _process = 0
    /\ _duplicate_action = "None"
    /\ _duplicate_pairs = <<>>
    /\ _source_files = <<>>
    /\ _progress_total_files = 0
    /\ _progress_total_bytes = 0
    /\ _progress_copied_files = 0
    /\ _progress_copied_bytes = 0
    /\ _output_buffer = <<>>
    /\ _progress_enabled = TRUE
    /\ progress = 0
    /\ status = <<"Ready">>
    /\ shown = <<>>
    /\ plan = NoPlan("")
    /\ rename_jobs = <<>>
    /\ lastOp = Op("__init__", NoUi, 0)

(***************************************************************************)
(* Spec: the runs of one window on a volume without name collisions        *)
(***************************************************************************)
Init ==
    /\ InitWindow
    /\ os_name = "nt"
    /\ fs = FsPlain
    /\ src_edit = InDir
    /\ dst_edit = OutDir
    /\ chk_move = FALSE
    /\ stream = <<>>
    /\ fed = <<>>
    /\ request = NoRequest
    /\ result = NoResult

DoStart == \E ui \in UiRun, clicked \in Clicks, disk \in Disks : Start(ui, clicked, disk)
DoPreview == \E ui \in UiRun : Preview(ui)
DoProcStarted == \E i \in 1..Len(procs) : ProcStarted(i)
DoProcFailedToStart == \E i \in 1..Len(procs) : ProcFailedToStart(i)
DoReadOutput == \E i \in 1..Len(procs), data \in Chunks : ReadOutput(i, data)
DoProcFinished ==
    \E i \in 1..Len(procs), exit_code \in ExitCodes,
       failing \in SUBSET (1..Len(_duplicate_pairs)) : ProcFinished(i, exit_code, failing)

Next ==
    \/ DoStart
    \/ DoPreview
    \/ Stop
    \/ DoProcStarted
    \/ DoProcFailedToStart
    \/ DoReadOutput
    \/ DoProcFinished

Spec == Init /\ [][Next]_vars

\* C1: at most one process is active at any time; a start issued while a
\* process has not exited spawns nothing, is answered with the busy message
\* when its plan is valid, and no process is ever spawned by anything but a
\* start issued while no process is active (nothing is queued).
C1_OneActiveProcess ==
    [][/\ Cardinality(ActiveProcs(procs')) <= 1
       /\ (ActiveProcs(procs) # {} /\ lastOp'.op = "_start")
             => /\ procs' = procs
                /\ _process' = _process
                /\ plan'.ok => Has(shown', "Busy")
       /\ Len(procs') > Len(procs)
             => lastOp'.op = "_start" /\ ActiveProcs(procs) = {}]_vars

\* a start was rejected as busy while a process was active
C1_Witness ==
    /\ lastOp.op = "_start"
    /\ plan.ok
    /\ Has(shown, "Busy")
    /\ Cardinality(ActiveProcs(procs)) = 1

\* C5: while a process is active, the copied counters never decrease and are
\* changed by no handler but the one consuming process output.
C5_CountersOnlyGrowInARun ==
    [][(/\ IsBusy(procs, _process)
        /\ IsBusy(procs', _process')
        /\ _process' = _process)
          => /\ _progress_copied_files' >= _progress_copied_files
             /\ _progress_copied_bytes' >= _progress_copied_bytes
             /\ copiedVars' # copiedVars => lastOp'.op = "_read_output"]_vars

\* C6: when a process is spawned the copied counters are 0 and the carry-over
\* buffer is empty.
C6_FreshStateAtProcessStart ==
    [][Len(procs') > Len(procs)
          => /\ _progress_copied_files' = 0
             /\ _progress_copied_bytes' = 0
             /\ _output_buffer' = <<>>]_vars

\* C7: after _on_finished the run is reported as failed exactly when the exit
\* code is 8 or more, and as complete exactly when it is less than 8.
C7_ExitCodeThreshold ==
    lastOp.op = "_on_finished"
      => /\ (status = <<"Transfer failed">>) <=> (lastOp.code >= 8)
         /\ (status = <<"Transfer complete">>) <=> (lastOp.code < 8)

\* a process exited with code 8 and the run was reported as failed
C7_Witness ==
    /\ lastOp.op = "_on_finished"
    /\ lastOp.code = 8
    /\ status = <<"Transfer failed">>
    /\ Has(shown, "Transfer failed")

(***************************************************************************)
(* SpecConsume: one text is fed to _consume_output_lines in chunks cut at  *)
(* any position                                                            *)
(***************************************************************************)
InitConsume ==
    /\ InitWindow
    /\ os_name = "nt"
    /\ fs = FsPlain
    /\ src_edit = InDir
    /\ dst_edit = OutDir
    /\ chk_move = FALSE
    /\ stream \in Streams
    /\ fed = <<>>
    /\ request = NoRequest
    /\ result = NoResult

\* the next n characters of the stream arrive as one chunk
Feed(n) ==
    /\ _consume_output_lines(SubSeq(stream, 1, n))
    /\ fed' = fed \o SubSeq(stream, 1, n)
    /\ stream' = SubSeq(stream, n + 1, Len(stream))
    /\ lastOp' = Op("_consume_output_lines", NoUi, 0)
    /\ shown' = <<>>
    /\ UNCHANGED <<fs, selVars, chk_move, procVars, dupVars, totalVars,
                   _progress_enabled, status, plan, rename_jobs, os_name, request,
                   result>>

DoFeed == \E n \in 1..Len(stream) : Feed(n)

NextConsume == DoFeed

SpecConsume == InitConsume /\ [][NextConsume]_vars

\* C2: however the text delivered so far was cut into chunks, the copied
\* counters equal those of consuming that text as a single chunk.
C2_ChunkingInvariant ==
    \E whole \in {ConsumeOutputLines(<<>>, fed)} :
        /\ _progress_copied_files = whole.files
        /\ _progress_copied_bytes = whole.bytes

\* a chunk ended between the "\r" and the "\n" of an event line, and the
\* line has been counted once
C2_Witness ==
    /\ Len(fed) > 0
    /\ fed[Len(fed)] = "\r"
    /\ stream # <<>>
    /\ stream[1] = "\n"
    /\ _output_buffer = <<>>
    /\ _progress_copied_files = 1
    /\ _progress_copied_bytes = 29

(***************************************************************************)
(* SpecPercent: _update_progress on any counters                           *)
(***************************************************************************)
InitPercent ==
    /\ procs = <<>>
    /\ _process = 0
    /\ _duplicate_action = "None"
    /\ _duplicate_pairs = <<>>
    /\ _source_files = <<>>
    /\ _progress_total_files \in TotalFiles
    /\ _progress_total_bytes \in 0..MaxTotal
    /\ _progress_copied_files \in CopiedFiles
    /\ _progress_copied_bytes \in 0..MaxCopied
    /\ _output_buffer = <<>>
    /\ _progress_enabled = TRUE
    /\ progress = 0
    /\ status = <<"Ready">>
    /\ shown = <<>>
    /\ plan = NoPlan("")
    /\ rename_jobs = <<>>
    /\ lastOp = Op("__init__", NoUi, 0)
    /\ os_name = "nt"
    /\ fs = FsPlain
    /\ src_edit = InDir
    /\ dst_edit = OutDir
    /\ chk_move = FALSE
    /\ stream = <<>>
    /\ fed = <<>>
    /\ request = NoRequest
    /\ result = NoResult

\* _update_progress(final=final)
_update_progress(final) ==
    /\ progress' = UpdateProgress(_progress_total_bytes, _progress_total_files,
                       _progress_copied_bytes, _progress_copied_files, final,
                       progress)
    /\ lastOp' = Op(IF final THEN "_update_progress(final=True)"
                    ELSE "_update_progress()", NoUi, 0)
    /\ shown' = <<>>
    /\ UNCHANGED <<fs, selVars, chk_move, procVars, dupVars, totalVars, copiedVars,
                   _output_buffer, _progress_enabled, status, plan, rename_jobs,
                   envVars>>

UpdateDuringRun == _update_progress(FALSE)
UpdateAtExit == _update_progress(TRUE)

NextPercent ==
    \/ UpdateDuringRun
    \/ UpdateAtExit

SpecPercent == InitPercent /\ [][NextPercent]_vars

\* C3: with a positive total byte count, the percentage shown after
\* _update_progress is floor(100 * copied bytes / total bytes), at most 100.
C3_ByteRatioFloor ==
    (lastOp.op # "__init__" /\ _progress_total_bytes > 0)
      => progress = Min(100, (100 * _progress_copied_bytes) \div _progress_total_bytes)

\* C4: _update_progress shows the floor of the byte ratio when the total byte
\* count is positive, else the floor of the file ratio when the total file
\* count is positive, else changes the percentage only at run completion (100
\* if anything was copied, 0 if not); the percentage is always in 0..100.
C4_ThreeTiers ==
    [][/\ progress' \in 0..100
       /\ progress' =
                 IF _progress_total_bytes > 0
                 THEN Min(100, (100 * _progress_copied_bytes) \div _progress_total_bytes)
                 ELSE IF _progress_total_files > 0
                 THEN Min(100, (100 * _progress_copied_files) \div _progress_total_files)
                 ELSE IF lastOp'.op = "_update_progress(final=True)"
                 THEN (IF _progress_copied_files > 0 \/ _progress_copied_bytes > 0
                       THEN 100 ELSE 0)
                 ELSE progress]_vars

(***************************************************************************)
(* SpecPlan: build_plan called on any request                              *)
(***************************************************************************)
InitPlan ==
    /\ InitWindow
    /\ os_name = "nt"
    /\ fs = FsPlain
    /\ src_edit = InDir
    /\ dst_edit = OutDir
    /\ chk_move = FALSE
    /\ stream = <<>>
    /\ fed = <<>>
    /\ request \in Requests
    /\ result = NoResult

\* build_plan(request.src, request.dst, **request.o)
CallBuildPlan ==
    /\ plan' = build_plan(fs, request.src, request.dst, request.o)
    /\ lastOp' = Op("build_plan", NoUi, 0)
    /\ shown' = <<>>
    /\ UNCHANGED <<fs, selVars, chk_move, procVars, dupVars, totalVars, copiedVars,
                   _output_buffer, _progress_enabled, progress, status, rename_jobs,
                   envVars>>

\* a repeated call that hands back the arguments of the call before it in
\* another order
RepeatBuildPlanReordered ==
    /\ lastOp.op # "__init__"
    /\ plan' = IF plan.ok
               THEN [plan EXCEPT !.args = [k \in 1..Len(plan.args) |->
                                             plan.args[Len(plan.args) + 1 - k]]]
               ELSE plan
    /\ lastOp' = Op("build_plan again", NoUi, 0)
    /\ shown' = <<>>
    /\ UNCHANGED <<fs, selVars, chk_move, procVars, dupVars, totalVars, copiedVars,
                   _output_buffer, _progress_enabled, progress, status, rename_jobs,
                   envVars>>

\* build_plan called once more with the request of the call before
RepeatBuildPlan ==
    /\ lastOp.op # "__init__"
    /\ plan' = build_plan(fs, request.src, request.dst, request.o)
    /\ lastOp' = Op("build_plan again", NoUi, 0)
    /\ shown' = <<>>
    /\ UNCHANGED <<fs, selVars, chk_move, procVars, dupVars, totalVars, copiedVars,
                   _output_buffer, _progress_enabled, progress, status, rename_jobs,
                   envVars>>

NextPlan ==
    \/ CallBuildPlan
    \/ RepeatBuildPlan

SpecPlan == InitPlan /\ [][NextPlan]_vars

\* C8: build_plan on a request whose source and destination resolve to the
\* same path returns no plan, whatever the other options.
C8_SamePathRejected ==
    (lastOp.op = "build_plan" /\ Resolve(request.src) = Resolve(request.dst))
      => ~plan.ok /\ plan.args = <<>>

\* an existing source written differently from the destination it resolves to
\* was rejected
C8_Witness ==
    /\ lastOp.op = "build_plan"
    /\ request.src = InAlias
    /\ request.dst = InDir
    /\ request.o.include_files # <<>>
    /\ request.o.mirror
    /\ plan.error = "Source and destination must be different."

\* C9 as stated: every plan for a request with move_files and include_subdirs
\* set and mirror unset has /E and /MOVE and has no /MIR.
C9_RecurseMoveNoMirror ==
    (/\ lastOp.op = "build_plan"
     /\ plan.ok
     /\ request.o.move_files
     /\ request.o.include_subdirs
     /\ ~request.o.mirror)
      => /\ Has(plan.args, "/E")
         /\ Has(plan.args, "/MOVE")
         /\ ~Has(plan.args, "/MIR")

\* C9: every plan for a request with move_files and include_subdirs set and
\* mirror unset has /MOVE and no /MIR; it has /E exactly when no file names
\* are included, and /LEV:1 exactly when some are.
C9_MoveNoMirrorDepthByFiles ==
    (/\ lastOp.op = "build_plan"
     /\ plan.ok
     /\ request.o.move_files
     /\ request.o.include_subdirs
     /\ ~request.o.mirror)
      => /\ Has(plan.args, "/MOVE")
         /\ ~Has(plan.args, "/MIR")
         /\ Has(plan.args, "/E") <=> request.o.include_files = <<>>
         /\ Has(plan.args, "/LEV:1") <=> request.o.include_files # <<>>

\* a plan for such a request without included file names recurses
C9_Witness ==
    /\ lastOp.op = "build_plan"
    /\ plan.ok
    /\ request.o.move_files
    /\ request.o.include_subdirs
    /\ ~request.o.mirror
    /\ request.o.include_files = <<>>
    /\ plan.args[1] = "/E"
    /\ plan.args[2] = "/MOVE"

\* rename, has /IS /IT exactly when it is overwrite, and never has flags of
\* both groups; with the action ask it has none of them.
C12_PolicyDecidesOverwriteFlags ==
    (lastOp.op = "build_plan" /\ plan.ok)
      => /\ \A flag \in {"/XN", "/XO", "/XC"} :
                Has(plan.args, flag) <=> request.o.duplicate_action \in {"skip", "rename"}
         /\ \A flag \in {"/IS", "/IT"} :
                Has(plan.args, flag) <=> request.o.duplicate_action = "overwrite"
         /\ ~(\E keep \in {"/XN", "/XO", "/XC"}, force \in {"/IS", "/IT"} :
                 Has(plan.args, keep) /\ Has(plan.args, force))

\* a plan for the action rename keeps what is in the destination
C12_Witness ==
    /\ lastOp.op = "build_plan"
    /\ plan.ok
    /\ request.o.duplicate_action = "rename"
    /\ Has(plan.args, "/XN")
    /\ Has(plan.args, "/XO")
    /\ Has(plan.args, "/XC")
    /\ ~Has(plan.args, "/IS")

(***************************************************************************)
(* SpecBuild: selections, and the plans MainWindow builds from them        *)
(***************************************************************************)
InitBuild ==
    /\ InitWindow
    /\ os_name \in {"nt", "posix"}
    /\ fs = FsCollide
    /\ src_edit = <<>>
    /\ dst_edit = <<>>
    /\ chk_move = TRUE
    /\ stream = <<>>
    /\ fed = <<>>
    /\ request = NoRequest
    /\ result = NoResult

DoPickSrc == \E folder \in {InDir} : PickSrc(folder)
DoPickSrcFiles == \E files \in FileLists : PickSrcFiles(files)
DoSrcTextEdited == \E text \in SrcTexts : SrcTextEdited(text)
DoPickDst == \E folder \in DstTexts : PickDst(folder)
DoPreviewBuild == \E ui \in UiBuild : Preview(ui)
DoStartBuild == \E ui \in UiBuild, clicked \in Clicks, disk \in Disks : Start(ui, clicked, disk)

NextBuild ==
    \/ DoPickSrc
    \/ DoPickSrcFiles
    \/ DoSrcTextEdited
    \/ DoPickDst
    \/ DoPreviewBuild
    \/ DoStartBuild
    \/ ToggleMove

SpecBuild == InitBuild /\ [][NextBuild]_vars

\* C10: _preview and _start build no plan from a file selection when mirror is
\* ticked or when the files do not share one parent directory, and no plan
\* they build has both /IF and /MIR.
C10_FileSelectionValidated ==
    (lastOp.op \in {"_preview", "_start"} /\ (lastOp.op = "_start" => os_name = "nt"))
      => /\ (_source_files # <<>> /\ lastOp.ui.mirror) => ~plan.ok
         /\ (\E i, j \in DOMAIN _source_files :
                 Parent(_source_files[i]) # Parent(_source_files[j])) => ~plan.ok
         /\ ~(Has(plan.args, "/IF") /\ Has(plan.args, "/MIR"))

\* a start with files of two directories selected was refused
C10_Witness ==
    /\ lastOp.op = "_start"
    /\ os_name = "nt"
    /\ _source_files = <<FileA, FileC>>
    /\ ~lastOp.ui.mirror
    /\ ~plan.ok
    /\ shown = <<"Invalid Selection">>


(***************************************************************************)
(* SpecScan: find_duplicates and find_duplicates_for_files called on any   *)
(* selection, destination and volume                                       *)
(***************************************************************************)
OutA == Append(OutDir, <<"a", ".mov">>)
OutB == Append(OutDir, <<"b", ".mov">>)
OutC == Append(OutDir, <<"c", ".mov">>)
OutSub == Append(OutDir, <<"sub", "">>)
OutSubC == Append(OutSub, <<"c", ".mov">>)

\* FsPlain without the source files in gone and with the files in there
Volume(gone, there) ==
    [q \in (DOMAIN FsPlain \ gone) \cup there
             \cup (IF OutSubC \in there THEN {OutSub} ELSE {}) |->
        IF q \in there THEN File(5)
        ELSE IF q = OutSub THEN Dir
        ELSE FsPlain[q]]

ScanVolumes ==
    {Volume(gone, there) :
        gone \in {{}, {FileB}},
        there \in {{}, {OutA}, {OutA, OutB}, {OutB, OutSubC},
                   {OutA, OutB, OutC, OutSubC}}}

ScanLists == {<<>>, <<FileA>>, <<FileB, FileA>>, <<FileA, FileC, FileB>>,
              <<FileC, FileA>>}

MaxSample == 1

ScanRequests ==
    [src : {InDir, GoneDir, FileA}, dst : {OutDir, GoneDir}, files : ScanLists,
     include_subdirs : BOOLEAN, sample_limit : {0, MaxSample, SampleLimit},
     return_pairs : BOOLEAN]

InitScan ==
    /\ InitWindow
    /\ os_name = "nt"
    /\ fs \in ScanVolumes
    /\ src_edit = InDir
    /\ dst_edit = OutDir
    /\ chk_move = FALSE
    /\ stream = <<>>
    /\ fed = <<>>
    /\ request \in ScanRequests
    /\ result = NoResult

\* find_duplicates(request.src, request.dst, ...)
CallFindDuplicates ==
    /\ result' = find_duplicates(fs, request.src, request.dst, request.include_subdirs,
                                 request.sample_limit, request.return_pairs)
    /\ lastOp' = Op("find_duplicates", NoUi, 0)
    /\ UNCHANGED <<fs, selVars, chk_move, procVars, dupVars, totalVars, copiedVars,
                   _output_buffer, _progress_enabled, progress, status, shown, plan,
                   rename_jobs, os_name, stream, fed, request>>

\* find_duplicates_for_files(request.files, request.dst, ...)
CallFindDuplicatesForFiles ==
    /\ result' = find_duplicates_for_files(fs, request.files, request.dst,
                                           request.sample_limit, request.return_pairs)
    /\ lastOp' = Op("find_duplicates_for_files", NoUi, 0)
    /\ UNCHANGED <<fs, selVars, chk_move, procVars, dupVars, totalVars, copiedVars,
                   _output_buffer, _progress_enabled, progress, status, shown, plan,
                   rename_jobs, os_name, stream, fed, request>>

NextScan ==
    \/ CallFindDuplicates
    \/ CallFindDuplicatesForFiles

SpecScan == InitScan /\ [][NextScan]_vars

\* C13: a scan of a selection root that does not exist, against a destination
\* root that does not exist, or of an empty file list, returns count 0, an
\* empty sample and an empty pair list, and does not raise.
C13_NothingToScanIsEmptyResult ==
    LET empty == /\ result.count = 0
                 /\ result.sample = <<>>
                 /\ result.pairs = <<>>
                 /\ ~result.raised
    IN  /\ (/\ lastOp.op = "find_duplicates"
            /\ ~Exists(fs, request.src) \/ ~Exists(fs, request.dst)) => empty
        /\ (/\ lastOp.op = "find_duplicates_for_files"
            /\ request.files = <<>> \/ ~Exists(fs, request.dst)) => empty

\* a flat scan of a selection root that does not exist
C13_Witness ==
    /\ lastOp.op = "find_duplicates"
    /\ ~Exists(fs, request.src)
    /\ Exists(fs, request.dst)
    /\ ~request.include_subdirs
    /\ request.return_pairs
    /\ result.count = 0

\* the destination path the scan tests for source file f
ScanDest(f, base) ==
    LET under(r) == request.dst \o (IF r.ok THEN r.rel ELSE <<f[Len(f)]>>)
    IN  under(RelativeTo(f, base))

\* the positions, in the candidate list, of the candidates that are there and
\* whose destination path exists
ScanHits(cands, base) ==
    {k \in 1..Len(cands) : /\ Exists(fs, cands[k])
                           /\ Exists(fs, ScanDest(cands[k], base))}

\* the j-th smallest element of H
NthHit(H, j) == CHOOSE k \in H : Cardinality({h \in H : h <= k}) = j

\* C14: the count of a scan is the number of candidates (entries of the walk,
\* or listed files that are still there) whose destination path exists; the
\* sample is the first min(count, sample_limit) of these destinations in the
\* order met; the pair list is empty unless asked for, and then holds all of
\* them in the order met.
C14_CountSampleAndPairs ==
    LET holds(cands, base, H) ==
            /\ result.count = Cardinality(H)
            /\ Len(result.sample) = Min(Cardinality(H), request.sample_limit)
            /\ \A j \in 1..Len(result.sample) :
                   result.sample[j] = ScanDest(cands[NthHit(H, j)], base)
            /\ ~request.return_pairs => result.pairs = <<>>
            /\ request.return_pairs =>
                   /\ Len(result.pairs) = Cardinality(H)
                   /\ \A j \in 1..Len(result.pairs) :
                          result.pairs[j] = <<cands[NthHit(H, j)],
                                              ScanDest(cands[NthHit(H, j)], base)>>
        scan(cands, base) == holds(cands, base, ScanHits(cands, base))
    IN  /\ lastOp.op = "find_duplicates" =>
               scan(iter_source_files(fs, request.src, request.include_subdirs),
                    request.src)
        /\ (lastOp.op = "find_duplicates_for_files" /\ request.files # <<>>) =>
               scan(request.files, Parent(request.files[1]))
        /\ (lastOp.op = "find_duplicates_for_files" /\ request.files = <<>>) =>
               result.count = 0 /\ result.sample = <<>> /\ result.pairs = <<>>

\* three listed files, one of them gone while its destination is there: two
\* collisions, of which the sample keeps the first
C14_Witness ==
    /\ lastOp.op = "find_duplicates_for_files"
    /\ request.files = <<FileA, FileC, FileB>>
    /\ ~Exists(fs, FileB)
    /\ Exists(fs, OutB)
    /\ request.return_pairs
    /\ request.sample_limit = MaxSample
    /\ result.count = 2
    /\ result.sample = <<OutA>>
    /\ result.pairs = << <<FileA, OutA>>, <<FileC, OutSubC>> >>


(***************************************************************************)
(* SpecFiles: _next_available_path, apply_duplicate_renames and            *)
(* estimate_transfer, each called once on any of its requests              *)
(***************************************************************************)
MaxVariants == 2

FileD == Append(InDir, <<"d", ".mov">>)

\* volumes where a.mov and any of its numbered variants are in the destination
NameVolumes ==
    {Volume({}, there) :
        there \in SUBSET ({OutA, OutSubC}
                            \cup {Candidate(OutA, k) : k \in 1..MaxVariants})}

NameRequests == [fn : {"_next_available_path"}, dst : {OutA, OutB, OutSub}]

\* volumes for the renames: b.mov of the selection gone or not
RenameVolumes ==
    {Volume(gone, there) :
        gone \in {{}, {FileB}},
        there \in {{OutA}, {OutA, OutB, OutSubC}, {OutA, Candidate(OutA, 1)}}}

\* pair lists: one as a scan gives it, one with a source twice, one whose
\* first destination lies under the file out/a.mov
PairLists ==
    {<< <<FileA, OutA>>, <<FileB, OutB>>, <<FileC, OutSubC>> >>,
     << <<FileA, OutA>>, <<FileA, OutA>> >>,
     << <<FileB, Append(OutA, <<"b", ".mov">>)>>, <<FileA, OutA>> >>}

RenameRequests ==
    UNION {[fn : {"apply_duplicate_renames"}, pairs : {pairs},
            move_files : BOOLEAN, failing : SUBSET (1..Len(pairs))] :
           pairs \in PairLists}

\* three files of 10, 20 and 30 bytes, one of them in a subfolder
FsSizes ==
    (InDir :> Dir) @@ (OutDir :> Dir) @@ (FileA :> File(10)) @@ (FileB :> File(20))
      @@ (Parent(FileC) :> Dir) @@ (FileC :> File(30))

EstimateVolumes == {FsSizes, [q \in DOMAIN FsSizes \ {FileB} |-> FsSizes[q]]}

EstimateRequests ==
    [fn : {"estimate_transfer"}, src : {InDir, GoneDir, FileA},
     include_subdirs : BOOLEAN,
     include_files : {<<>>, << <<"a", ".mov">>, <<"d", ".mov">>, <<"sub", "">> >>},
     files : {<<>>, <<FileA, FileB, FileC, FileD>>, <<Parent(FileC), FileA>>}]

InitFiles ==
    /\ InitWindow
    /\ os_name = "nt"
    /\ \/ fs \in NameVolumes /\ request \in NameRequests
       \/ fs \in RenameVolumes /\ request \in RenameRequests
       \/ fs \in EstimateVolumes /\ request \in EstimateRequests
    /\ src_edit = InDir
    /\ dst_edit = OutDir
    /\ chk_move = FALSE
    /\ stream = <<>>
    /\ fed = <<>>
    /\ result = NoResult

\* _next_available_path(request.dst)
CallNextAvailablePath ==
    /\ lastOp.op = "__init__"
    /\ request.fn = "_next_available_path"
    /\ result' = _next_available_path(fs, request.dst)
    /\ lastOp' = Op("_next_available_path", NoUi, 0)
    /\ UNCHANGED <<fs, selVars, chk_move, procVars, dupVars, totalVars, copiedVars,
                   _output_buffer, _progress_enabled, progress, status, shown, plan,
                   rename_jobs, os_name, stream, fed, request>>

\* apply_duplicate_renames(request.pairs, move_files=request.move_files), the
\* operating system refusing the move or copy of the pairs in request.failing
CallApplyDuplicateRenames ==
    /\ lastOp.op = "__init__"
    /\ request.fn = "apply_duplicate_renames"
    /\ \E r \in {apply_duplicate_renames(fs, request.pairs, request.move_files,
                                         request.failing)} :
           /\ fs' = r.fs
           /\ result' = [count |-> r.count, errors |-> r.errors]
    /\ lastOp' = Op("apply_duplicate_renames", NoUi, 0)
    /\ UNCHANGED <<selVars, chk_move, procVars, dupVars, totalVars, copiedVars,
                   _output_buffer, _progress_enabled, progress, status, shown, plan,
                   rename_jobs, os_name, stream, fed, request>>

\* estimate_transfer(request.src, include_subdirs=, include_files=, files=)
CallEstimateTransfer ==
    /\ lastOp.op = "__init__"
    /\ request.fn = "estimate_transfer"
    /\ result' = estimate_transfer(fs, request.src, request.include_subdirs,
                                   request.include_files, request.files)
    /\ lastOp' = Op("estimate_transfer", NoUi, 0)
    /\ UNCHANGED <<fs, selVars, chk_move, procVars, dupVars, totalVars, copiedVars,
                   _output_buffer, _progress_enabled, progress, status, shown, plan,
                   rename_jobs, os_name, stream, fed, request>>

NextFiles ==
    \/ CallNextAvailablePath
    \/ CallApplyDuplicateRenames
    \/ CallEstimateTransfer

SpecFiles == InitFiles /\ [][NextFiles]_vars

\* C15: for a path with stem S and suffix E, _next_available_path returns the
\* path itself when nothing is there, and otherwise "S (k)E" in the same
\* folder for the smallest k >= 1 for which nothing is there; what it returns
\* is never there.
C15_SmallestFreeNumber ==
    lastOp.op = "_next_available_path" =>
        LET dst == request.dst
            numbered(k) ==
                Append(Parent(dst), <<dst[Len(dst)][1] \o " (" \o ToString(k) \o ")",
                                      dst[Len(dst)][2]>>)
        IN  /\ ~Exists(fs, result)
            /\ ~Exists(fs, dst) => result = dst
            /\ Exists(fs, dst) =>
                   \E k \in 1..(MaxVariants + 1) :
                       /\ result = numbered(k)
                       /\ \A j \in 1..(k - 1) : Exists(fs, numbered(j))

\* a.mov and a (1).mov are there: the name is a (2).mov
C15_Witness ==
    /\ lastOp.op = "_next_available_path"
    /\ request.dst = OutA
    /\ Exists(fs, OutA)
    /\ Exists(fs, Append(OutDir, <<"a (1)", ".mov">>))
    /\ result = Append(OutDir, <<"a (2)", ".mov">>)

\* C16: apply_duplicate_renames leaves one error entry for each pair whose
\* processing failed (the folder could not be made, or the move or copy was
\* refused), in the order of the pairs, goes on to the pairs after it, and
\* returns a count such that count + errors + pairs skipped for a source that
\* is not there = number of pairs.
C16_FailuresIsolated ==
    [][lastOp'.op = "apply_duplicate_renames" =>
          LET pairs == request.pairs
              bad(i) == i \in request.failing \/ MkdirFails(fs, Parent(pairs[i][2]))
              \* there[i]: pair i finds its source when its turn comes
              there[i \in 1..Len(pairs)] ==
                  /\ Exists(fs, pairs[i][1])
                  /\ ~ /\ request.move_files
                       /\ \E j \in 1..(i - 1) : /\ pairs[j][1] = pairs[i][1]
                                                /\ there[j]
                                                /\ ~bad(j)
              failed == {i \in 1..Len(pairs) : there[i] /\ bad(i)}
              done == {i \in 1..Len(pairs) : there[i] /\ ~bad(i)}
              skipped == {i \in 1..Len(pairs) : ~there[i]}
          IN  /\ result'.count = Cardinality(done)
              /\ Len(result'.errors) = Cardinality(failed)
              /\ \A j \in 1..Len(result'.errors) :
                     result'.errors[j] = pairs[NthHit(failed, j)]
              /\ result'.count + Len(result'.errors) + Cardinality(skipped)
                   = Len(pairs)
              /\ \A i \in done : request.move_files => ~Exists(fs', pairs[i][1])]_vars

\* the first pair is refused, the source of the second is gone, the third is
\* copied or moved to a free name
C16_Witness ==
    /\ lastOp.op = "apply_duplicate_renames"
    /\ Len(request.pairs) = 3
    /\ request.failing = {1}
    /\ ~Exists(fs, FileB)
    /\ result.count = 1
    /\ Len(result.errors) = 1
    /\ Exists(fs, Append(OutSub, <<"c (1)", ".mov">>))

\* C17: estimate_transfer returns the number of its candidates (the listed
\* files, the named files under src, or the entries of the walk) that are
\* regular files and the sum of their sizes; a candidate that is not there or
\* is a folder adds to neither, and the call returns.
C17_CountAndBytesOfRegularFiles ==
    LET holds(cands) ==
            LET files == {k \in 1..Len(cands) : IsFile(fs, cands[k])}
                sum[S \in SUBSET files] ==
                    IF S = {} THEN 0
                    ELSE SizeOf(fs, cands[NthHit(S, 1)]) + sum[S \ {NthHit(S, 1)}]
            IN  /\ ~result.raised
                /\ result.count = Cardinality(files)
                /\ result.total = sum[files]
    IN  lastOp.op = "estimate_transfer" =>
            IF request.files # <<>> THEN holds(request.files)
            ELSE IF request.include_files # <<>>
            THEN holds([i \in 1..Len(request.include_files) |->
                           Append(request.src, request.include_files[i])])
            ELSE ~ListdirRaises(fs, request.src, request.include_subdirs) =>
                     holds(iter_source_files(fs, request.src, request.include_subdirs))

\* files of 10, 20 and 30 bytes and a path that is not there: (3, 60)
C17_Witness ==
    /\ lastOp.op = "estimate_transfer"
    /\ request.files = <<FileA, FileB, FileC, FileD>>
    /\ ~Exists(fs, FileD)
    /\ result.count = 3
    /\ result.total = 60


(***************************************************************************)
(* SpecExclude: starts and previews in a window opened with no source, in  *)
(* which many files are picked, or opened with a folder as source          *)
(***************************************************************************)
ManyFile(dir, k) == Append(dir, <<"f" \o ToString(k), ".mov">>)

\* MaxExcludes + 2 files in the selection folder; all but the second are in
\* the destination too
FsMany ==
    [q \in {InDir, OutDir}
             \cup {ManyFile(InDir, k) : k \in 1..(MaxExcludes + 2)}
             \cup {ManyFile(OutDir, k) : k \in (1..(MaxExcludes + 2)) \ {2}} |->
        IF q \in {InDir, OutDir} THEN Dir ELSE File(1)]

\* the first m files of the folder, picked together
ManySelections ==
    {[k \in 1..m |-> ManyFile(InDir, k)] :
        m \in {3, MaxExcludes + 1, MaxExcludes + 2}}

InitExclude ==
    /\ InitWindow
    /\ os_name = "nt"
    /\ \/ fs = FsMany /\ src_edit = <<>>
       \/ fs = Volume({}, {OutA, OutB, OutSubC}) /\ src_edit = InDir
    /\ dst_edit = OutDir
    /\ chk_move = FALSE
    /\ stream = <<>>
    /\ fed = <<>>
    /\ request = NoRequest
    /\ result = NoResult

DoPickManyFiles == \E files \in ManySelections : PickSrcFiles(files)
DoPreviewExclude == Preview(NoUi)
DoStartExclude ==
    \E c \in BOOLEAN, clicked \in Clicks, disk \in Disks :
        Start([NoUi EXCEPT !.check_dupes = c], clicked, disk)

NextExclude ==
    \/ DoPickManyFiles
    \/ DoPreviewExclude
    \/ DoStartExclude

SpecExclude == InitExclude /\ [][NextExclude]_vars

\* C18: a plan built under Skip carries, after /XF, the paths relative to the
\* selection root of the first min(n, 200) source files of the n collision
\* pairs, in the order of the pairs, and nothing more; a plan built under any
\* other policy, or for a preview, has no /XF.
C18_SkipExcludesCapped ==
    (lastOp.op \in {"_start", "_preview"} /\ plan.ok) =>
        LET n == Len(_duplicate_pairs)
            root == IF _source_files # <<>> THEN Parent(_source_files[1]) ELSE src_edit
            rel(f) == IF RelativeTo(f, root).ok THEN PathStr(RelativeTo(f, root).rel)
                      ELSE NameStr(f[Len(f)])
            kept == Min(n, 200)
        IN  IF lastOp.op = "_start" /\ _duplicate_action = "skip"
            THEN \E k \in DOMAIN plan.args :
                     /\ plan.args[k] = "/XF"
                     /\ \A i \in 1..kept : plan.args[k + i] = rel(_duplicate_pairs[i][1])
                     /\ plan.args[k + kept + 1] = "/BYTES"
                     /\ kept >= 1
            ELSE ~Has(plan.args, "/XF")

\* 201 of the 202 files picked are in the destination: the first 200 of them
\* are excluded, the third file picked being the second of them
C18_Witness ==
    /\ lastOp.op = "_start"
    /\ plan.ok
    /\ _duplicate_action = "skip"
    /\ Len(_duplicate_pairs) = 201
    /\ \E k \in DOMAIN plan.args : /\ plan.args[k] = "/XF"
                                   /\ plan.args[k + 2] = "f3.mov"
                                   /\ plan.args[k + 200] = "f201.mov"
                                   /\ plan.args[k + 201] = "/BYTES"


(***************************************************************************)
(* SpecRename: the runs of one window on a volume where a.mov is in the    *)
(* destination already.  Each process is remembered with the policy and    *)
(* the pairs that the _build_plan call of its own _start came to.          *)
(***************************************************************************)
InitRename ==
    /\ InitWindow
    /\ os_name = "nt"
    /\ fs = FsCollide
    /\ src_edit = InDir
    /\ dst_edit = OutDir
    /\ chk_move \in BOOLEAN
    /\ stream = <<>>
    /\ fed = <<>>
    /\ request = NoRequest
    /\ result = NoResult

DoStartRun ==
    \E ui \in UiRun, clicked \in Clicks, disk \in Disks :
        \E bp \in {_build_plan(TRUE, ui, clicked)} :
            StartProc(ui, clicked, disk,
                      [state |-> NewProc.state, killed |-> NewProc.killed,
                       reads |-> NewProc.reads, policy |-> bp.action,
                       pairs |-> bp.pairs])

NextRename ==
    \/ DoStartRun
    \/ DoPreview
    \/ Stop
    \/ DoProcStarted
    \/ DoProcFinished

SpecRename == InitRename /\ [][NextRename]_vars

\* C19: every rename job that was executed belongs to a process whose own
\* start chose the policy Rename, and was given exactly the pairs found by the
\* scan of that start.
C19_RenameJobOnlyUnderRename ==
    \A j \in 1..Len(rename_jobs) :
        /\ procs[rename_jobs[j].proc].policy = "rename"
        /\ rename_jobs[j].pairs = procs[rename_jobs[j].proc].pairs

\* C20: a rename job is executed only in the handler of a process's exit; a
\* process that has not exited has no job executed for it, no process has
\* more than one, and a process that has exited and whose start registered
\* pairs under Rename has exactly one.
C20_JobOnceAfterExit ==
    [][/\ rename_jobs' # rename_jobs
            => /\ lastOp'.op = "_on_finished"
               /\ Len(rename_jobs') = Len(rename_jobs) + 1
       /\ \A i \in 1..Len(procs') :
              LET mine == {j \in 1..Len(rename_jobs') : rename_jobs'[j].proc = i}
              IN  /\ procs'[i].state # "NotRunning" => mine = {}
                  /\ Cardinality(mine) <= 1
                  /\ (/\ procs'[i].state = "NotRunning"
                      /\ procs'[i].policy = "rename"
                      /\ procs'[i].pairs # <<>>) => Cardinality(mine) = 1]_vars


(***************************************************************************)
(* Further properties of Spec                                              *)
(***************************************************************************)
\* C21: when the program of a started process cannot be launched, the user
\* is told at once: the step in which the launch fails shows a message box or
\* changes the status bar message.
C21_SpawnFailureSurfaced ==
    [][lastOp'.op = "failed to start" => shown' # <<>> \/ status' # status]_vars


\* C22: the exit of a process that _stop had killed while it was running is
\* reported as a cancelled run: neither as a failed nor as a completed one.
C22_KilledRunEndsCancelled ==
    [][(/\ lastOp'.op = "_on_finished"
        /\ \E i \in 1..Len(procs) : /\ procs[i].state = "Running"
                                    /\ procs[i].killed
                                    /\ procs'[i].state = "NotRunning")
          => status' \notin {<<"Transfer failed">>, <<"Transfer complete">>}]_vars


(***************************************************************************)
(* SpecSpace: runs on the volume without collisions, for any answer of     *)
(* shutil.disk_usage(dst); request.disk is that answer                     *)
(***************************************************************************)
DiskValues == [ok : BOOLEAN, free : {0, 49, 50, 1000}]

InitSpace ==
    /\ InitWindow
    /\ os_name = "nt"
    /\ fs = FsPlain
    /\ src_edit = InDir
    /\ dst_edit = OutDir
    /\ chk_move = FALSE
    /\ stream = <<>>
    /\ fed = <<>>
    /\ request \in [disk : DiskValues]
    /\ result = NoResult

DoPickOneFile == \E files \in {<<FileA>>, <<FileC>>} : PickSrcFiles(files)
DoStartSpace ==
    \E c \in BOOLEAN : Start([NoUi EXCEPT !.check_space = c], "none", request.disk)

NextSpace ==
    \/ DoPickOneFile
    \/ DoPickSrc
    \/ DoStartSpace
    \/ DoProcStarted
    \/ DoProcFinished

SpecSpace == InitSpace /\ [][NextSpace]_vars

\* C23: a start with a valid plan and no process active creates its process
\* whatever shutil.disk_usage answers, a failure included; "Low disk space"
\* is shown exactly when the check is ticked, the query answers, the
\* estimated total is more than 0 bytes and the free space is less than it.
C23_LowSpaceOnlyWarns ==
    (lastOp.op = "_start" /\ plan.ok) =>
        /\ Has(shown, "Low disk space")
             <=> /\ lastOp.ui.check_space
                 /\ request.disk.ok
                 /\ _progress_total_bytes > 0
                 /\ request.disk.free < _progress_total_bytes
        /\ ~Has(shown, "Busy") => /\ _process = Len(procs)
                                  /\ procs[_process].state = "Starting"

\* 50 bytes to copy and 49 free: the warning is shown and the process created
C23_Witness ==
    /\ lastOp.op = "_start"
    /\ plan.ok
    /\ _progress_total_bytes = 50
    /\ request.disk.free = 49
    /\ Has(shown, "Low disk space")
    /\ ~Has(shown, "Busy")
    /\ procs[_process].state = "Starting"

(***************************************************************************)
(* SpecLines: complete output lines are consumed one at a time             *)
(***************************************************************************)
MaxLines == 2

LineNewFile ==
    <<"N", "E", "W", " ", "F", "I", "L", "E", " ", " ", "1", ",", "0", "2", "4", " ", "b">>
LineNoDigit == <<"c", "h", "a", "n", "g", "e", "d", " ", ",", " ", "c">>

\* the lines a process writes: events, and lines that fall short of an event
\* (no name after the size, no gap before it, text before the keyword, a gap
\* inside the keyword, a longer word, a letter in the size, blank, empty)
Lines ==
    {<<>>, <<" ", " ">>, LineNewFile, LineNoDigit,
     <<"N", "e", "w", "e", "r", " ", "2", "9", " ", "a">>,
     <<"o", "l", "d", "e", "r", "\t", "1", ",", "2", ",", "\t", "q">>,
     <<" ", " ", "N", "e", "w", "e", "r", " ", "4", " ", "a">>,
     <<"O", "l", "d", "e", "r", " ", "7">>,
     <<"N", "e", "w", "e", "r", "2", "9", " ", "a">>,
     <<"x", " ", "N", "e", "w", "e", "r", " ", "2", "9", " ", "a">>,
     <<"N", "e", "w", " ", " ", "F", "i", "l", "e", " ", "3", " ", "a">>,
     <<"N", "e", "w", "e", "s", "t", " ", "5", " ", "a">>,
     <<"N", "e", "w", "e", "r", " ", "2", "9", "x", " ", "a">>}

LineEnds == {<<"\n">>, <<"\r">>, <<"\r", "\n">>}

InitLines ==
    /\ InitWindow
    /\ os_name = "nt"
    /\ fs = FsPlain
    /\ src_edit = InDir
    /\ dst_edit = OutDir
    /\ chk_move = FALSE
    /\ stream = <<>>
    /\ fed = <<>>
    /\ request = [line |-> <<>>, end |-> <<>>]
    /\ result = 0

\* _consume_output_lines(line + end): the loop body _update_progress_from_line
\* runs once, on the stripped line
ConsumeLine(line, end) ==
    /\ result < MaxLines
    /\ _consume_output_lines(line \o end)
    /\ request' = [line |-> line, end |-> end]
    /\ result' = result + 1
    /\ lastOp' = Op("_update_progress_from_line", NoUi, 0)
    /\ shown' = <<>>
    /\ UNCHANGED <<fs, selVars, chk_move, procVars, dupVars, totalVars,
                   _progress_enabled, status, plan, rename_jobs, os_name, stream,
                   fed>>

DoConsumeLine == \E line \in Lines, end \in LineEnds : ConsumeLine(line, end)

NextLines == DoConsumeLine

SpecLines == InitLines /\ [][NextLines]_vars

\* the size fields of line under the event grammar: optional blanks, a keyword
\* in any case, blanks, a field of digits and commas, blanks, a name
EventSizes(line) ==
    {SubSeq(line, p, q) : <<p, q>> \in
        {pq \in (1..Len(line)) \X (1..Len(line)) :
            /\ pq[1] <= pq[2]
            /\ \A i \in pq[1]..pq[2] : line[i] \in SizeChars
            /\ pq[2] < Len(line)
            /\ line[pq[2] + 1] \in Whitespace
            /\ \E j \in (pq[2] + 2)..Len(line) : line[j] \notin Whitespace
            /\ \E lead \in 0..Len(line), k \in 1..Len(Keywords) :
                  /\ \A i \in 1..lead : line[i] \in Whitespace
                  /\ lead + Len(Keywords[k]) + 1 < pq[1]
                  /\ \A i \in 1..Len(Keywords[k]) :
                         Lower(line[lead + i]) = Keywords[k][i]
                  /\ \A i \in (lead + Len(Keywords[k]) + 1)..(pq[1] - 1) :
                         line[i] \in Whitespace}}

RECURSIVE Pow10(_)
Pow10(n) == IF n = 0 THEN 1 ELSE 10 * Pow10(n - 1)

RECURSIVE SizeValueFrom(_, _)
\* the number the digits of text[i..] write, each digit weighted by the
\* number of digits after it
SizeValueFrom(text, i) ==
    IF i > Len(text) THEN 0
    ELSE (IF text[i] = "," THEN 0
          ELSE DigitVal(text[i])
                 * Pow10(Cardinality({j \in (i + 1)..Len(text) : text[j] # ","})))
         + SizeValueFrom(text, i + 1)

\* C24: consuming one complete line adds 1 to the copied files and the size
\* the field writes (0 when it has no digit, never negative) to the copied
\* bytes when the line is an event of the grammar, and leaves both counters
\* unchanged for every other line, the empty line included.
C24_CountersFollowGrammar ==
    [][lastOp'.op = "_update_progress_from_line" =>
         IF EventSizes(request'.line) = {}
         THEN /\ _progress_copied_files' = _progress_copied_files
              /\ _progress_copied_bytes' = _progress_copied_bytes
         ELSE /\ _progress_copied_files' = _progress_copied_files + 1
              /\ \E s \in EventSizes(request'.line) :
                    /\ SizeValueFrom(s, 1) >= 0
                    /\ _progress_copied_bytes'
                         = _progress_copied_bytes + SizeValueFrom(s, 1)]_vars

\* an event of 1,024 bytes and then an event whose size field has no digit
\* were consumed: two files, 1024 bytes
C24_Witness ==
    /\ lastOp.op = "_update_progress_from_line"
    /\ request.line = LineNoDigit
    /\ EventSizes(LineNoDigit) = {<<",">>}
    /\ _progress_copied_files = 2
    /\ _progress_copied_bytes = 1024

(***************************************************************************)
(* Further properties of SpecRename                                        *)
(***************************************************************************)
\* C25: when the plan of a start carries an exclude list, the progress totals
\* are the count and the bytes of the source files that are not excluded.
C25_TotalsLeaveOutExcluded ==
    (lastOp.op = "_start" /\ plan.ok /\ Has(plan.args, "/XF")) =>
        \E kept \in {SelectSeq(iter_source_files(fs, src_edit, lastOp.ui.subdirs),
                               LAMBDA f : \A j \in 1..Len(_duplicate_pairs) :
                                              _duplicate_pairs[j][1] # f)} :
            \E e \in {IF kept = <<>> THEN [count |-> 0, total |-> 0]
                      ELSE estimate_transfer(fs, src_edit, TRUE, <<>>, kept)} :
                /\ _progress_total_files = e.count
                /\ _progress_total_bytes = e.total

(***************************************************************************)
(* SpecDry: the runs of one window on the volume where a.mov is in the     *)
(* destination already, with the "Move files" box ticked and unticked in   *)
(* between.  Each process is remembered with the dry run and move options  *)
(* of the _start that created it.                                          *)
(***************************************************************************)
InitDry ==
    /\ InitWindow
    /\ os_name = "nt"
    /\ fs = FsCollide
    /\ src_edit = InDir
    /\ dst_edit = OutDir
    /\ chk_move \in BOOLEAN
    /\ stream = <<>>
    /\ fed = <<>>
    /\ request = NoRequest
    /\ result = NoResult

DoStartDry ==
    \E ui \in UiRun, clicked \in Clicks, disk \in Disks :
        StartProc(ui, clicked, disk,
                  [state |-> NewProc.state, killed |-> NewProc.killed,
                   reads |-> NewProc.reads, dry_run |-> ui.dry_run,
                   move |-> chk_move])

NextDry ==
    \/ DoStartDry
    \/ ToggleMove
    \/ DoProcStarted
    \/ DoProcFinished

SpecDry == InitDry /\ [][NextDry]_vars

\* C26: the exit of a process that was started as a dry run leaves the file
\* system as it is: no rename job moves or copies a file for it.
C26_DryRunLeavesFilesAlone ==
    [][\A i \in 1..Len(procs) :
           (/\ procs[i].state = "Running"
            /\ procs'[i].state = "NotRunning"
            /\ procs[i].dry_run) => fs' = fs]_vars

\* C27: every rename job moved or copied as the "Move files" box stood when
\* the process it belongs to was started.
C27_JobMovesAsPlanned ==
    \A j \in 1..Len(rename_jobs) :
        rename_jobs[j].move_files = procs[rename_jobs[j].proc].move

(***************************************************************************)
(* Further properties of SpecScan                                          *)
(***************************************************************************)
\* C28: every pair a scan returns has a destination that lies strictly below
\* the destination root and ends with the name of the pair's source file.
C28_PairsBelowDestinationRoot ==
    lastOp.op \in {"find_duplicates", "find_duplicates_for_files"} =>
        \A j \in 1..Len(result.pairs) :
            \E f \in {result.pairs[j][1]}, d \in {result.pairs[j][2]} :
                /\ Len(d) > Len(request.dst)
                /\ SubSeq(d, 1, Len(request.dst)) = request.dst
                /\ d[Len(d)] = f[Len(f)]

\* C29: a _start that ends in the Busy box leaves the progress totals, the
\* copied counters, the progress-enabled flag, the duplicate policy and the
\* registered pairs as they were.
C29_RejectedStartChangesNothing ==
    [][(lastOp'.op = "_start" /\ Has(shown', "Busy"))
          => /\ _progress_total_files' = _progress_total_files
             /\ _progress_total_bytes' = _progress_total_bytes
             /\ _progress_copied_files' = _progress_copied_files
             /\ _progress_copied_bytes' = _progress_copied_bytes
             /\ _progress_enabled' = _progress_enabled
             /\ _duplicate_action' = _duplicate_action
             /\ _duplicate_pairs' = _duplicate_pairs]_vars

====
